---------------------------- MODULE Spec2Model ----------------------------
(***************************************************************************)
(* A model of the ibkr-flex-statement decoder: the element accessor        *)
(* (node_utils.rs), the closed-set decoders (currency.rs,                  *)
(* asset_category.rs, open_position.rs, trade.rs), the timestamp           *)
(* normalizer (time_utils.rs, trade.rs), the seven record decoders and     *)
(* the statement assembler (lib.rs).                                        *)
(*                                                                         *)
(* Attribute values are TLA+ strings, read character by character, so the  *)
(* scalar, date and enumeration decoders are computed from the text as     *)
(* the code computes them.  A call has three possible outcomes: it         *)
(* returns Ok(v), it returns Err(msg), or it panics (an unwrap of None     *)
(* aborts the call and nothing is returned).                               *)
(***************************************************************************)
EXTENDS FiniteSets, Integers, Sequences, TLC

VARIABLES
    doc,        \* the parsed XML document: its elements in document order
    wellFormed, \* whether Document::parse accepts the text
    tzmap,      \* Parser.timezone_map: abbreviation -> timezone
    pc,         \* position of parse_flex_query_response
    pos,        \* index of the FlexStatement element being decoded (0: none yet)
    cur,        \* the sections of the current statement decoded so far
    out,        \* the Vec<Statement> being collected
    result,     \* what parse_flex_query_response produced
    log,        \* history: the elements from_node was called on, in call order
    call,       \* accessor run: the function applied, [fn, arg]
    ret         \* accessor run: what it returned

vars == <<doc, wellFormed, tzmap, pc, pos, cur, out, result, log, call, ret>>

----------------------------------------------------------------------------
(* Bounds of the model.                                                    *)

\* longest attribute text drawn from the alphabet in an accessor run
MaxLen == 3
\* most elements of a generated document tree
MaxElems == 4
\* deepest nesting of a generated document tree (the root is depth 0)
MaxDepth == 3
\* most records after the account information in a generated flat statement
MaxRecs == 2

----------------------------------------------------------------------------
(* Option and Result values.                                               *)

None == [some |-> FALSE]
Some(x) == [some |-> TRUE, v |-> x]

Ok(x) == [tag |-> "Ok", v |-> x]
Err(m) == [tag |-> "Err", msg |-> m]
\* Option::unwrap on None, LocalResult::unwrap on None or Ambiguous
Panic == [tag |-> "Panic"]

IsOk(r) == r.tag = "Ok"
IsErr(r) == r.tag = "Err"
IsPanic(r) == r.tag = "Panic"

----------------------------------------------------------------------------
(* Text.                                                                   *)

Char(s, i) == SubSeq(s, i, i)
From(s, i) == SubSeq(s, i, Len(s))

Digits == {"0", "1", "2", "3", "4", "5", "6", "7", "8", "9"}
IsDigit(c) == c \in Digits

DigitVal(c) ==
    CASE c = "0" -> 0 [] c = "1" -> 1 [] c = "2" -> 2 [] c = "3" -> 3
      [] c = "4" -> 4 [] c = "5" -> 5 [] c = "6" -> 6 [] c = "7" -> 7
      [] c = "8" -> 8 [] c = "9" -> 9

\* the index after the longest run of digits of s that starts at i
RECURSIVE DigitsEnd(_, _)
DigitsEnd(s, i) ==
    IF i <= Len(s) /\ IsDigit(Char(s, i)) THEN DigitsEnd(s, i + 1) ELSE i

\* the number written by the digits s[i..j-1] (0 for the empty run)
RECURSIVE NumberOf(_, _, _)
NumberOf(s, i, j) ==
    IF j <= i THEN 0
    ELSE 10 * NumberOf(s, i, j - 1) + DigitVal(Char(s, j - 1))

AsciiLower(c) ==
    CASE c = "A" -> "a" [] c = "F" -> "f" [] c = "I" -> "i" [] c = "N" -> "n"
      [] c = "T" -> "t" [] c = "Y" -> "y" [] OTHER -> c

RECURSIVE Lowered(_)
Lowered(s) == IF s = "" THEN "" ELSE AsciiLower(Char(s, 1)) \o Lowered(Tail(s))

RECURSIVE TrimStart(_)
TrimStart(s) == IF s # "" /\ Char(s, 1) = " " THEN TrimStart(Tail(s)) ELSE s

\* the index of the first occurrence of the character c in s at or after i,
\* Len(s) + 1 when there is none
RECURSIVE IndexOf(_, _, _)
IndexOf(s, c, i) ==
    IF i > Len(s) \/ Char(s, i) = c THEN i ELSE IndexOf(s, c, i + 1)

----------------------------------------------------------------------------
(* Numbers.  TLC's integers are 32 bits wide, so a u32, the digits of an   *)
(* f64 and a millisecond timestamp are kept in exact positional forms: a   *)
(* u32 as its canonical decimal numeral, an f64 as sign, significant       *)
(* digits and power of ten, a timestamp as whole seconds and milliseconds. *)

RECURSIVE StripLeadingZeros(_)
StripLeadingZeros(s) ==
    IF s # "" /\ Char(s, 1) = "0" THEN StripLeadingZeros(Tail(s)) ELSE s

RECURSIVE StripTrailingZeros(_)
StripTrailingZeros(s) ==
    IF s # "" /\ Char(s, Len(s)) = "0"
    THEN StripTrailingZeros(SubSeq(s, 1, Len(s) - 1))
    ELSE s

\* does the numeral n (digits only, no leading zero) exceed
\* u32::MAX = 4294967295 (compared as its leading and its last five digits)
ExceedsU32(n) ==
    \/ Len(n) > 10
    \/ /\ Len(n) = 10
       /\ LET hi == NumberOf(n, 1, 6)
              lo == NumberOf(n, 6, 11)
          IN  hi > 42949 \/ (hi = 42949 /\ lo > 67295)

(* str::parse::<u32> (core::num, from_str_radix 10): an optional '+', then *)
(* one or more digits, the value at most u32::MAX.  A '-' is no digit.     *)
parse_u32(s) ==
    IF s = "" THEN Err("cannot parse integer from empty string")
    ELSE LET body == IF Char(s, 1) = "+" THEN Tail(s) ELSE s
             n == StripLeadingZeros(body)
         IN  IF body = "" \/ DigitsEnd(body, 1) <= Len(body)
             THEN Err("invalid digit found in string")
             ELSE IF ExceedsU32(n)
             THEN Err("number too large to fit in target type")
             ELSE Ok(IF n = "" THEN "0" ELSE n)

(* str::parse::<f64> (core::num::dec2flt): an optional sign, then either   *)
(* digits with an optional '.' (at least one digit in all) and an optional *)
(* exponent e|E [sign] digits+, or one of inf, infinity, nan in any case.  *)
F64Num(neg, digits, exp) ==
    LET lead == StripLeadingZeros(digits)
        sig == StripTrailingZeros(lead)
    IN  [cls |-> "num", neg |-> neg, digits |-> sig,
         exp |-> IF sig = "" THEN 0 ELSE exp + (Len(lead) - Len(sig))]

F64Special(neg, name) == [cls |-> name, neg |-> neg, digits |-> "", exp |-> 0]

parse_f64(s) ==
    IF s = "" THEN Err("cannot parse float from empty string")
    ELSE LET neg == Char(s, 1) = "-"
             body == IF Char(s, 1) \in {"+", "-"} THEN Tail(s) ELSE s
             p1 == DigitsEnd(body, 1)
             hasDot == p1 <= Len(body) /\ Char(body, p1) = "."
             p2 == IF hasDot THEN DigitsEnd(body, p1 + 1) ELSE p1
             nInt == p1 - 1
             nFrac == IF hasDot THEN p2 - p1 - 1 ELSE 0
             mant == SubSeq(body, 1, p1 - 1)
                     \o (IF hasDot THEN SubSeq(body, p1 + 1, p2 - 1) ELSE "")
             hasExp == p2 <= Len(body) /\ Char(body, p2) \in {"e", "E"}
             p3 == IF hasExp /\ p2 + 1 <= Len(body)
                      /\ Char(body, p2 + 1) \in {"+", "-"}
                   THEN p2 + 2 ELSE p2 + 1
             expNeg == hasExp /\ p2 + 1 <= Len(body) /\ Char(body, p2 + 1) = "-"
             p4 == DigitsEnd(body, p3)
             expVal == NumberOf(body, p3, p4)
             low == Lowered(body)
         IN  IF nInt + nFrac >= 1 /\ p2 > Len(body)
             THEN Ok(F64Num(neg, mant, 0 - nFrac))
             ELSE IF nInt + nFrac >= 1 /\ hasExp /\ p4 > p3 /\ p4 > Len(body)
             THEN Ok(F64Num(neg, mant,
                            (IF expNeg THEN 0 - expVal ELSE expVal) - nFrac))
             ELSE IF low \in {"inf", "infinity"} THEN Ok(F64Special(neg, "inf"))
             ELSE IF low = "nan" THEN Ok(F64Special(neg, "nan"))
             ELSE Err("invalid float literal")

----------------------------------------------------------------------------
(* Element Accessor (node_utils.rs).  An element is a record               *)
(* [tag, depth, attrs]; attrs maps the names of the attributes that are    *)
(* present to their text.                                                  *)

\* roxmltree Node::attribute: a case-sensitive lookup by name
attribute(node, attribute_name) ==
    IF attribute_name \in DOMAIN node.attrs
    THEN Some(node.attrs[attribute_name])
    ELSE None

\* Option::unwrap, as a Result that panics on None
unwrap(o) == IF o.some THEN Ok(o.v) ELSE Panic

\* a required read that takes an empty value for an absent one
get_attribute_nonblank(node, attribute_name) ==
    IF attribute(node, attribute_name) = Some("") THEN Panic
    ELSE unwrap(attribute(node, attribute_name))

get_attribute(node, attribute_name) ==
    unwrap(attribute(node, attribute_name))

\* get_attribute_opt without its is_empty test
get_attribute_opt_raw(node, attribute_name) ==
    attribute(node, attribute_name)

get_attribute_opt(node, attribute_name) ==
    LET a == attribute(node, attribute_name)
    IN  IF a.some
        THEN (IF a.v = "" THEN None ELSE Some(a.v))
        ELSE None

\* str::parse::<T> for the two scalar types the decoders read
parse(T, s) == IF T = "u32" THEN parse_u32(s) ELSE parse_f64(s)

\* a: the attribute, unwrapped
ParseUnwrapped(T, a) == IF IsOk(a) THEN parse(T, a.v) ELSE a

parse_attribute(node, attribute_name, T) ==
    ParseUnwrapped(T, unwrap(attribute(node, attribute_name)))

\* the optional read with `.ok()` in place of `?`: a parse error is dropped
OkSome_lenient(r) == IF IsOk(r) THEN Ok(Some(r.v)) ELSE Ok(None)

\* Ok(Some(s.parse::<T>().map_err(anyhow::Error::msg)?))
OkSome(r) == IF IsOk(r) THEN Ok(Some(r.v)) ELSE r

\* an accessor that parses a blank text like any other
parse_attribute_opt_strict(node, attribute_name, T) ==
    LET a == attribute(node, attribute_name)
    IN  IF a.some THEN OkSome(parse(T, a.v)) ELSE Ok(None)

\* an accessor that reads a missing or blank number as zero
parse_attribute_opt_zero(node, attribute_name, T) ==
    LET a == attribute(node, attribute_name)
    IN  IF a.some /\ a.v # ""
        THEN OkSome(parse(T, a.v))
        ELSE Ok(Some(parse(T, "0").v))

parse_attribute_opt(node, attribute_name, T) ==
    LET a == attribute(node, attribute_name)
    IN  IF a.some
        THEN (IF a.v = "" THEN Ok(None) ELSE OkSome(parse(T, a.v)))
        ELSE Ok(None)

----------------------------------------------------------------------------
(* Closed-Set Decoders.                                                    *)

\* the decoder with a catch-all arm that yields a variant
Currency_try_from_default(s) ==
    CASE s = "BASE_SUMMARY" -> Ok("BASE")
      [] s = "CAD" -> Ok("CAD")
      [] OTHER -> Ok("USD")

Currency_try_from(s) ==
    CASE s = "BASE_SUMMARY" -> Ok("BASE")
      [] s = "CAD" -> Ok("CAD")
      [] s = "USD" -> Ok("USD")
      [] OTHER -> Err("unknown currency " \o s)

\* a decoder that also takes the lower-case spellings of the tags
AssetCategory_try_from_folded(s) ==
    CASE s \in {"CRYPTO", "crypto"} -> Ok("Crypto")
      [] s \in {"STK", "stk"} -> Ok("Stock")
      [] OTHER -> Err("unsupported asset category " \o s)

AssetCategory_try_from(s) ==
    CASE s = "CRYPTO" -> Ok("Crypto")
      [] s = "STK" -> Ok("Stock")
      [] OTHER -> Err("unsupported asset category " \o s)

PositionSide_try_from(s) ==
    CASE s = "Long" -> Ok("Long")
      [] s = "Short" -> Ok("Short")
      [] OTHER -> Err("unknown position side " \o s)

OpenCloseIndicator_try_from(s) ==
    CASE s = "C" -> Ok("Close")
      [] s = "C;O" -> Ok("CloseOpen")
      [] s = "O" -> Ok("Open")
      [] OTHER -> Err("unknown openClose indicator " \o s)

\* a decoder that takes every order type it does not know for a limit order
OrderType_try_from_default(s) == Ok("Limit")

OrderType_try_from(s) ==
    CASE s = "LMT" -> Ok("Limit")
      [] OTHER -> Err("unknown order type " \o s)

TradeSide_try_from(s) ==
    CASE s = "BUY" -> Ok("Buy")
      [] s = "SELL" -> Ok("Sell")
      [] OTHER -> Err("unknown trade side " \o s)

----------------------------------------------------------------------------
(* chrono's strptime-style parser (NaiveDate::parse_from_str,              *)
(* NaiveDateTime::parse_from_str), for the two formats the code uses.      *)
(* A numeric item skips leading spaces and reads 1..width digits (a year   *)
(* with an explicit sign reads all the digits that follow it); a literal   *)
(* must match exactly; a space item skips any spaces; %Z skips every       *)
(* character up to the next space; input left over is an error.            *)

Invalid == "input contains invalid characters"
TooShort == "premature end of input"
TooLong == "trailing input"
OutOfRange == "input is out of range"

Num(field, width, signed) ==
    [k |-> "num", f |-> field, w |-> width, signed |-> signed, c |-> ""]
Lit(c) == [k |-> "lit", f |-> "", w |-> 0, signed |-> FALSE, c |-> c]
SpaceItem == [k |-> "space", f |-> "", w |-> 0, signed |-> FALSE, c |-> " "]
TzNameItem == [k |-> "tzname", f |-> "", w |-> 0, signed |-> FALSE, c |-> ""]

\* "%Y-%m-%d"
FmtDate ==
    << Num("year", 4, TRUE), Lit("-"), Num("month", 2, FALSE), Lit("-"),
       Num("day", 2, FALSE) >>

\* "%Y-%m-%d;%H:%M:%S %Z"
FmtDateTime ==
    FmtDate \o
    << Lit(";"), Num("hour", 2, FALSE), Lit(":"), Num("minute", 2, FALSE),
       Lit(":"), Num("second", 2, FALSE), SpaceItem, TzNameItem >>

\* e: the index after the digits read
ScannedTo(s, e) ==
    IF s = "" THEN Err(TooShort)
    ELSE IF e = 1 THEN Err(Invalid)
    ELSE Ok([val |-> NumberOf(s, 1, e), rest |-> From(s, e)])

\* scan::number(s, min = 1, max): Ok([val, rest]) or the error
ScanNumber(s, max) ==
    ScannedTo(s, DigitsEnd(SubSeq(s, 1, IF max < Len(s) THEN max ELSE Len(s)),
                           1))

Negated(r) ==
    IF IsOk(r) THEN Ok([val |-> 0 - r.v.val, rest |-> r.v.rest]) ELSE r

\* s: the input with its leading spaces skipped
ScanTrimmed(item, s) ==
    IF item.signed /\ s # "" /\ Char(s, 1) = "-"
    THEN Negated(ScanNumber(Tail(s), Len(s)))
    ELSE IF item.signed /\ s # "" /\ Char(s, 1) = "+"
    THEN ScanNumber(Tail(s), Len(s))
    ELSE ScanNumber(s, item.w)

ScanNumeric(item, s) == ScanTrimmed(item, TrimStart(s))

NoFields == [f \in {} |-> 0]

\* the fields parsed from s under the items, or the first error
RECURSIVE ParseItems(_, _, _)

\* r: what the numeric item read
AfterNumeric(items, r, fields) ==
    IF IsOk(r)
    THEN ParseItems(Tail(items), r.v.rest, (Head(items).f :> r.v.val) @@ fields)
    ELSE r

ParseItem(item, items, s, fields) ==
    CASE item.k = "num" -> AfterNumeric(items, ScanNumeric(item, s), fields)
      [] item.k = "lit" ->
            IF s # "" /\ Char(s, 1) = item.c
            THEN ParseItems(Tail(items), Tail(s), fields)
            ELSE IF s = "" THEN Err(TooShort) ELSE Err(Invalid)
      [] item.k = "space" -> ParseItems(Tail(items), TrimStart(s), fields)
      [] item.k = "tzname" ->
            ParseItems(Tail(items), From(s, IndexOf(s, " ", 1)), fields)

ParseItems(items, s, fields) ==
    IF items = << >>
    THEN (IF s = "" THEN Ok(fields) ELSE Err(TooLong))
    ELSE ParseItem(Head(items), items, s, fields)

IsLeapYear(y) == (y % 4 = 0 /\ y % 100 # 0) \/ y % 400 = 0

DaysInMonth(y, m) ==
    CASE m \in {1, 3, 5, 7, 8, 10, 12} -> 31
      [] m \in {4, 6, 9, 11} -> 30
      [] m = 2 -> IF IsLeapYear(y) THEN 29 ELSE 28

\* NaiveDate holds the years -262143..262142
ValidDate(f) ==
    /\ f.year >= -262143 /\ f.year <= 262142
    /\ f.month >= 1 /\ f.month <= 12
    /\ f.day >= 1 /\ f.day <= DaysInMonth(f.year, f.month)

\* hour 0..23, minute 0..59, second 0..59 or the leap second 60
ValidTime(f) ==
    /\ f.hour <= 23
    /\ f.minute <= 59
    /\ f.second <= 60

\* NaiveDate::parse_from_str(s, "%Y-%m-%d")
\* Parsed::to_naive_date
ToNaiveDate(r) ==
    IF IsOk(r) /\ ~ValidDate(r.v) THEN Err(OutOfRange) ELSE r

NaiveDate_parse_from_str(s) == ToNaiveDate(ParseItems(FmtDate, s, NoFields))

\* NaiveDateTime::parse_from_str(s, "%Y-%m-%d;%H:%M:%S %Z")
\* Parsed::to_naive_datetime_with_offset
ToNaiveDateTime(r) ==
    IF IsOk(r) /\ ~(ValidDate(r.v) /\ ValidTime(r.v)) THEN Err(OutOfRange)
    ELSE r

NaiveDateTime_parse_from_str(s) ==
    ToNaiveDateTime(ParseItems(FmtDateTime, s, NoFields))

----------------------------------------------------------------------------
(* Calendar and timezone arithmetic (chrono, chrono_tz).  The instants the *)
(* model computes lie in the years 2007..2037: from 2007 on                *)
(* America/New_York switches to daylight time at 02:00 on the second       *)
(* Sunday of March and back at 02:00 on the first Sunday of November, and  *)
(* up to 2037 the epoch seconds fit TLC's integers.                        *)

\* days from 1970-01-01 to day d of the mp-th month after March of the
\* March-based year yy
DaysFromMarch(yy, mp, d) ==
    (yy \div 400) * 146097
    + (yy % 400) * 365 + (yy % 400) \div 4 - (yy % 400) \div 100
    + (153 * mp + 2) \div 5 + d - 1
    - 719468

\* days from 1970-01-01 to the civil date y-m-d
DaysFromCivil(y, m, d) ==
    DaysFromMarch(IF m <= 2 THEN y - 1 ELSE y,
                  IF m > 2 THEN m - 3 ELSE m + 9, d)

\* 0 = Sunday .. 6 = Saturday (1970-01-01 was a Thursday)
Weekday(y, m, d) == (DaysFromCivil(y, m, d) + 4) % 7

\* the day of month of the n-th Sunday of month m of year y
NthSunday(y, m, n) == 1 + ((7 - Weekday(y, m, 1)) % 7) + 7 * (n - 1)

SecondsOfDay(f) ==
    f.hour * 3600 + f.minute * 60 + (IF f.second = 60 THEN 59 ELSE f.second)

\* the naive date and time as seconds since the epoch, read as UTC
NaiveSeconds(f) ==
    DaysFromCivil(f.year, f.month, f.day) * 86400 + SecondsOfDay(f)

Single(off) == [kind |-> "Single", off |-> off]
NoLocalTime == [kind |-> "None", off |-> 0]
Ambiguous == [kind |-> "Ambiguous", off |-> 0]

\* UTC offsets of Eastern standard and daylight time, in seconds
EST == 0 - 5 * 3600
EDT == 0 - 4 * 3600

\* TimeZone::from_local_datetime for America/New_York: the UTC offset of a
\* local wall-clock time, none in the hour skipped in March, two in the hour
\* repeated in November
\* md: month * 100 + day; t: second of the day; start, stop: the days of
\* March and of November on which the clocks change
NewYorkRule(md, t, start, stop) ==
    IF md = 300 + start /\ t >= 7200 /\ t < 10800 THEN NoLocalTime
    ELSE IF md = 1100 + stop /\ t >= 3600 /\ t < 7200 THEN Ambiguous
    ELSE IF (md > 300 + start \/ (md = 300 + start /\ t >= 10800))
            /\ (md < 1100 + stop \/ (md = 1100 + stop /\ t < 3600))
    THEN Single(EDT)
    ELSE Single(EST)

\* a zone that keeps standard time all year
NewYorkLocal_standard(f) == Single(EST)

NewYorkLocal(f) ==
    NewYorkRule(f.month * 100 + f.day, SecondsOfDay(f),
                NthSunday(f.year, 3, 2), NthSunday(f.year, 11, 1))

from_local_datetime(timezone, f) ==
    IF timezone = "America/New_York" THEN NewYorkLocal(f) ELSE Single(0)

\* LocalResult::unwrap, then DateTime::timestamp() * 1000, as seconds and
\* milliseconds
UnwrapTimestampMs(l, f) ==
    IF l.kind = "Single"
    THEN Ok([s |-> NaiveSeconds(f) - l.off, ms |-> 0])
    ELSE Panic

LocalTimestampMs(timezone, f) ==
    UnwrapTimestampMs(from_local_datetime(timezone, f), f)

----------------------------------------------------------------------------
(* Timestamp Normalizer (time_utils.rs, trade.rs).                         *)

\* d: the parsed date; .and_hms_opt(hour, 0, 0).unwrap(), then the instant
AtHour(d, timezone, hour) ==
    IF ~IsOk(d) THEN d
    ELSE IF hour > 23 THEN Panic
    ELSE LocalTimestampMs(timezone,
             d.v @@ [hour |-> hour, minute |-> 0, second |-> 0])

timestamp_ms_at_hour(date, timezone, hour) ==
    AtHour(NaiveDate_parse_from_str(date), timezone, hour)

trading_eod_after_hours_timestamp_ms(date) ==
    timestamp_ms_at_hour(date, "America/New_York", 20)

\* str::split(" "): the text before the first space, and the text between
\* the first and the second space when there is a first space
FirstPart(s) == SubSeq(s, 1, IndexOf(s, " ", 1) - 1)
SecondPart(s) ==
    LET i == IndexOf(s, " ", 1)
    IN  IF i > Len(s) THEN None
        ELSE Some(SubSeq(s, i + 1, IndexOf(s, " ", i + 1) - 1))

\* naive_dt: the parsed date and time; the instant in the timezone
InTimezone(naive_dt, timezone) ==
    IF ~IsOk(naive_dt) THEN naive_dt
    ELSE LocalTimestampMs(timezone, naive_dt.v)

\* short_timezone: the second part, unwrapped; tz_map.get(..).unwrap()
ExecutionTime(tz_map, datetime_str, short_timezone) ==
    IF ~IsOk(short_timezone) THEN Panic
    ELSE IF short_timezone.v \notin DOMAIN tz_map THEN Panic
    ELSE InTimezone(NaiveDateTime_parse_from_str(datetime_str),
                    tz_map[short_timezone.v])

try_parse_trade_execution_time_ms(tz_map, s) ==
    ExecutionTime(tz_map, FirstPart(s), unwrap(SecondPart(s)))

----------------------------------------------------------------------------
(* Record Decoders.  A decoder is the list of its struct's fields in the   *)
(* order the struct literal evaluates them: <<field, attribute, reader>>.  *)
(* The first field that does not read Ok ends the decode with its error    *)
(* or its panic.                                                            *)

\* node.node.attribute(name).unwrap(), then the closed-set decoder
try_from(enum, s) ==
    CASE enum = "Currency" -> Currency_try_from(s)
      [] enum = "AssetCategory" -> AssetCategory_try_from(s)
      [] enum = "PositionSide" -> PositionSide_try_from(s)
      [] enum = "OpenCloseIndicator" -> OpenCloseIndicator_try_from(s)
      [] enum = "OrderType" -> OrderType_try_from(s)
      [] enum = "TradeSide" -> TradeSide_try_from(s)

\* a: the attribute, unwrapped
DecodeEnum(enum, a) == IF IsOk(a) THEN try_from(enum, a.v) ELSE a

read_enum(node, attribute_name, enum) ==
    DecodeEnum(enum, unwrap(attribute(node, attribute_name)))

\* trading_eod_after_hours_timestamp_ms(node.node.attribute(name).unwrap())
EodOf(a) == IF IsOk(a) THEN trading_eod_after_hours_timestamp_ms(a.v) ELSE a

read_eod(node, attribute_name) ==
    EodOf(unwrap(attribute(node, attribute_name)))

\* a start that is the close of fromDate itself
StartOf_close(e) == e

\* CashReport: start_date_eod_ms_plus_one - (60 * 60 * 24 * 1000) + 1
StartOf(e) ==
    IF IsOk(e) THEN Ok([s |-> e.v.s - 60 * 60 * 24, ms |-> e.v.ms + 1]) ELSE e

read_start(node, attribute_name) == StartOf(read_eod(node, attribute_name))

ExecOf(a, tz_map) ==
    IF IsOk(a) THEN try_parse_trade_execution_time_ms(tz_map, a.v) ELSE a

read_exec(node, attribute_name, tz_map) ==
    ExecOf(unwrap(attribute(node, attribute_name)), tz_map)

Enums ==
    {"Currency", "AssetCategory", "PositionSide", "OpenCloseIndicator",
     "OrderType", "TradeSide"}

ReadField(node, attribute_name, reader, tz_map) ==
    CASE reader = "str" -> get_attribute(node, attribute_name)
      [] reader = "optstr" -> Ok(get_attribute_opt(node, attribute_name))
      [] reader \in {"f64", "u32"} -> parse_attribute(node, attribute_name, reader)
      [] reader = "optf64" -> parse_attribute_opt(node, attribute_name, "f64")
      [] reader = "optu32" -> parse_attribute_opt(node, attribute_name, "u32")
      [] reader \in Enums -> read_enum(node, attribute_name, reader)
      [] reader = "eod" -> read_eod(node, attribute_name)
      [] reader = "start" -> read_start(node, attribute_name)
      [] reader = "exec" -> read_exec(node, attribute_name, tz_map)

AccountInfo_fields == << <<"account_id", "accountId", "str">> >>

CashReport_fields ==
    << <<"start_timestamp_ms", "fromDate", "start">>,
       <<"account_id", "accountId", "str">>,
       <<"currency", "currency", "Currency">>,
       <<"starting_cash", "startingCash", "f64">>,
       <<"ending_cash", "endingCash", "f64">>,
       <<"ending_settled_cash", "endingSettledCash", "f64">>,
       <<"net_trade_purchases", "netTradesPurchases", "f64">>,
       <<"net_trade_sales", "netTradesSales", "f64">>,
       <<"commissions", "commissions", "f64">>,
       <<"commissions_mtd", "commissionsMTD", "optf64">>,
       <<"commissions_ytd", "commissionsYTD", "optf64">>,
       <<"other_fees", "otherFees", "f64">>,
       <<"other_fees_mtd", "otherFeesMTD", "optf64">>,
       <<"other_fees_ytd", "otherFeesYTD", "optf64">>,
       <<"dividends", "dividends", "f64">>,
       <<"dividends_mtd", "dividendsMTD", "optf64">>,
       <<"dividends_ytd", "dividendsYTD", "optf64">>,
       <<"interest", "brokerInterest", "f64">>,
       <<"interest_mtd", "brokerInterestMTD", "optf64">>,
       <<"interest_ytd", "brokerInterestYTD", "optf64">>,
       <<"deposits", "deposits", "f64">>,
       <<"deposits_mtd", "depositsMTD", "optf64">>,
       <<"deposits_ytd", "depositsYTD", "optf64">>,
       <<"withdrawals", "withdrawals", "f64">>,
       <<"withdrawals_mtd", "withdrawalsMTD", "optf64">>,
       <<"withdrawals_ytd", "withdrawalsYTD", "optf64">>,
       <<"end_timestamp_ms", "toDate", "eod">> >>

EquitySummary_fields ==
    << <<"account_id", "accountId", "str">>,
       <<"cash_balance", "cash", "f64">>,
       <<"cash_balance_long", "cashLong", "f64">>,
       <<"cash_balance_short", "cashShort", "f64">>,
       <<"currency", "currency", "Currency">>,
       <<"interest_accrual_mtd", "interestAccruals", "f64">>,
       <<"interest_accrual_mtd_long", "interestAccrualsLong", "f64">>,
       <<"interest_accrual_mtd_short", "interestAccrualsShort", "f64">>,
       <<"stock_balance", "stock", "f64">>,
       <<"stock_balance_long", "stockLong", "f64">>,
       <<"stock_balance_short", "stockShort", "f64">>,
       <<"timestamp_eod_ms", "reportDate", "eod">> >>

FIFOPerformanceSummary_fields ==
    << <<"account_id", "accountId", "str">>,
       <<"timestamp_eod_ms", "reportDate", "eod">>,
       <<"ticker", "symbol", "optstr">>,
       <<"conid", "conid", "optu32">>,
       <<"listing_exchange", "listingExchange", "optstr">>,
       <<"realized_st_profit", "realizedSTProfit", "f64">>,
       <<"realized_st_loss", "realizedSTLoss", "f64">>,
       <<"unrealized_st_profit", "unrealizedSTProfit", "f64">>,
       <<"unrealized_st_loss", "unrealizedSTLoss", "f64">>,
       <<"realized_lt_profit", "realizedLTProfit", "f64">>,
       <<"realized_lt_loss", "realizedLTLoss", "f64">>,
       <<"unrealized_lt_profit", "unrealizedLTProfit", "f64">>,
       <<"unrealized_lt_loss", "unrealizedLTLoss", "f64">>,
       <<"total_realized_pnl", "totalRealizedPnl", "f64">>,
       <<"total_fifo_pnl", "totalFifoPnl", "f64">> >>

NetStockPosition_fields ==
    << <<"account_id", "accountId", "str">>,
       <<"asset_category", "assetCategory", "AssetCategory">>,
       <<"conid", "conid", "u32">>,
       <<"currency", "currency", "Currency">>,
       <<"net_shares", "netShares", "f64">>,
       <<"listing_exchange", "listingExchange", "str">>,
       <<"ticker", "symbol", "str">> >>

OpenPosition_fields ==
    << <<"account_id", "accountId", "str">>,
       <<"asset_category", "assetCategory", "AssetCategory">>,
       <<"conid", "conid", "u32">>,
       <<"cost_basis_price", "costBasisPrice", "f64">>,
       <<"currency", "currency", "Currency">>,
       <<"fifo_pnl_unrealized", "fifoPnlUnrealized", "f64">>,
       <<"listing_exchange", "listingExchange", "str">>,
       <<"mark_price", "markPrice", "f64">>,
       <<"open_quantity", "position", "f64">>,
       <<"position_value", "positionValue", "f64">>,
       <<"side", "side", "PositionSide">>,
       <<"ticker", "symbol", "str">>,
       <<"timestamp_eod_ms", "reportDate", "eod">> >>

Trade_fields ==
    << <<"account_id", "accountId", "str">>,
       <<"commission", "ibCommission", "f64">>,
       <<"conid", "conid", "u32">>,
       <<"currency", "currency", "Currency">>,
       <<"execution_exchange", "exchange", "str">>,
       <<"execution_id", "ibExecID", "str">>,
       <<"execution_timestamp_ms", "dateTime", "exec">>,
       <<"listing_exchange", "listingExchange", "str">>,
       <<"open_close_indicator", "openCloseIndicator", "OpenCloseIndicator">>,
       <<"order_id", "brokerageOrderID", "str">>,
       <<"order_type", "orderType", "OrderType">>,
       <<"price", "tradePrice", "f64">>,
       <<"quantity", "quantity", "f64">>,
       <<"side", "buySell", "TradeSide">>,
       <<"ticker", "symbol", "str">> >>

\* the StatementSection implementations, by the tag of the element decoded
FieldsOf(section_name) ==
    CASE section_name = "AccountInformation" -> AccountInfo_fields
      [] section_name = "CashReportCurrency" -> CashReport_fields
      [] section_name = "EquitySummaryByReportDateInBase" -> EquitySummary_fields
      [] section_name = "FIFOPerformanceSummaryUnderlying" ->
            FIFOPerformanceSummary_fields
      [] section_name = "NetStockPosition" -> NetStockPosition_fields
      [] section_name = "OpenPosition" -> OpenPosition_fields
      [] section_name = "Trade" -> Trade_fields

RECURSIVE DecodeFields(_, _, _, _)

\* r: what the first of the fields read
AfterField(fields, node, tz_map, rec, r) ==
    IF IsOk(r)
    THEN DecodeFields(Tail(fields), node, tz_map, (Head(fields)[1] :> r.v) @@ rec)
    ELSE r

DecodeFields(fields, node, tz_map, rec) ==
    IF fields = << >> THEN Ok(rec)
    ELSE AfterField(fields, node, tz_map, rec,
                    ReadField(node, Head(fields)[2], Head(fields)[3], tz_map))

NoRecord == [f \in {} |-> 0]

\* T::from_node(&NodeWrapper { node }) and, for Trade, with the timezone map
from_node(section_name, node, tz_map) ==
    DecodeFields(FieldsOf(section_name), node, tz_map, NoRecord)

----------------------------------------------------------------------------
(* Statement Assembler (lib.rs).  The document is the sequence of its      *)
(* elements in document order (pre-order), each with its nesting depth;    *)
(* the root element FlexQueryResponse, at depth 0, is left implicit.       *)

\* a walk that does not stop at the end of element i
IsDescendant_following(d, i, j) == i <= j /\ j <= Len(d)

\* a subtree walk that sees element i and its children only
IsDescendant_child(d, i, j) ==
    /\ i <= j /\ j <= Len(d)
    /\ \A k \in (i + 1)..j : d[k].depth > d[i].depth
    /\ j > i => d[j].depth = d[i].depth + 1

\* is element j element i itself or inside it (roxmltree Node::descendants)
IsDescendant(d, i, j) ==
    /\ i <= j /\ j <= Len(d)
    /\ \A k \in (i + 1)..j : d[k].depth > d[i].depth

\* the elements of d[i].descendants() whose tag is section_name, in
\* document order; i = 0 is the document itself
RECURSIVE MatchesFrom(_, _, _, _)
MatchesFrom(d, i, section_name, j) ==
    IF j > Len(d) THEN << >>
    ELSE IF i > 0 /\ ~IsDescendant(d, i, j) THEN << >>
    ELSE (IF d[j].tag = section_name THEN <<j>> ELSE << >>)
         \o MatchesFrom(d, i, section_name, j + 1)

\* children() in place of descendants(): the matches one level below d[i]
Matches_children(d, i, section_name) ==
    SelectSeq(MatchesFrom(d, i, section_name, IF i = 0 THEN 1 ELSE i),
              LAMBDA j : d[j].depth = (IF i = 0 THEN 0 ELSE d[i].depth) + 1)

\* a search of the whole document in place of the subtree of d[i]
Matches_document(d, i, section_name) ==
    MatchesFrom(d, 0, section_name, 1)

Matches(d, i, section_name) ==
    MatchesFrom(d, i, section_name, IF i = 0 THEN 1 ELSE i)

\* .map(from_node).collect::<Result<Vec<T>>>(): decodes the matches in order
\* and stops at the first that fails.  [res, seen]: the outcome and the
\* elements from_node was called on.
RECURSIVE CollectSection(_, _, _, _, _)

\* r: what from_node returned for the first of the matches idx
AfterRecord(d, idx, tz_map, recs, seen, r) ==
    IF IsOk(r)
    THEN CollectSection(d, Tail(idx), tz_map, Append(recs, r.v),
                        Append(seen, Head(idx)))
    ELSE [res |-> r, seen |-> Append(seen, Head(idx))]

CollectSection(d, idx, tz_map, recs, seen) ==
    IF idx = << >> THEN [res |-> Ok(recs), seen |-> seen]
    ELSE AfterRecord(d, idx, tz_map, recs, seen,
                     from_node(d[Head(idx)].tag, d[Head(idx)], tz_map))

parse_section(d, i, section_name, tz_map) ==
    CollectSection(d, Matches(d, i, section_name), tz_map, << >>, << >>)

\* an iterator that yields the last FlexStatement element after p
NextStatement_last(d, p) ==
    LET later == {j \in (p + 1)..Len(d) : d[j].tag = "FlexStatement"}
    IN  IF later = {} THEN 0
        ELSE CHOOSE j \in later : \A k \in later : j >= k

\* the first FlexStatement element after element p, 0 when there is none
NextStatement(d, p) ==
    LET later == {j \in (p + 1)..Len(d) : d[j].tag = "FlexStatement"}
    IN  IF later = {} THEN 0
        ELSE CHOOSE j \in later : \A k \in later : j <= k

NoSections == [f \in {} |-> << >>]
NoResult == [tag |-> "None"]

\* the call ends: an error is returned, or the panic unwinds; the Vec being
\* collected is dropped
Fails(r) ==
    /\ result' = r
    /\ pc' = "done"
    /\ out' = << >>
    /\ cur' = NoSections

\* Document::parse(flex_query_response)?, then the iterator is set up
parse_flex_query_response ==
    /\ pc = "start"
    /\ IF wellFormed
       THEN pc' = "iter" /\ UNCHANGED <<result, out, cur>>
       ELSE Fails(Err("xml"))
    /\ UNCHANGED <<doc, wellFormed, tzmap, pos, log, call, ret>>

\* the iterator yields the next FlexStatement element
NextFlexStatement ==
    /\ pc = "iter"
    /\ NextStatement(doc, pos) # 0
    /\ pos' = NextStatement(doc, pos)
    /\ pc' = "account_infos"
    /\ UNCHANGED <<doc, wellFormed, tzmap, cur, out, result, log, call, ret>>

\* the iterator is exhausted: collect returns the Vec
ReturnStatements ==
    /\ pc = "iter"
    /\ NextStatement(doc, pos) = 0
    /\ result' = Ok(out)
    /\ pc' = "done"
    /\ UNCHANGED <<doc, wellFormed, tzmap, pos, cur, out, log, call, ret>>

\* parse_flex_statement, lines 94-102: the AccountInformation section and
\* the exactly-one check
\* r: what parse_section::<AccountInfo> produced
AccountInfosParsed(r) ==
    /\ log' = log \o r.seen
    /\ IF ~IsOk(r.res) THEN Fails(r.res)
       ELSE IF Len(r.res.v) > 1
       THEN Fails(Err("multiple account information sections found"))
       ELSE IF Len(r.res.v) = 0
       THEN Fails(Err("no account information sections found"))
       ELSE /\ cur' = [account_info |-> r.res.v[1]]
            /\ pc' = "cash_reports"
            /\ UNCHANGED <<out, result>>

ParseAccountInfos ==
    /\ pc = "account_infos"
    /\ AccountInfosParsed(parse_section(doc, pos, "AccountInformation", tzmap))
    /\ UNCHANGED <<doc, wellFormed, tzmap, pos, call, ret>>

\* one `let x = self.parse_section(node, name)?;` of parse_flex_statement
\* r: what parse_section produced
SectionParsed(r, field, next) ==
    /\ log' = log \o r.seen
    /\ IF ~IsOk(r.res) THEN Fails(r.res)
       ELSE /\ cur' = (field :> r.res.v) @@ cur
            /\ pc' = next
            /\ UNCHANGED <<out, result>>

SectionStep(here, section_name, field, next) ==
    /\ pc = here
    /\ SectionParsed(parse_section(doc, pos, section_name, tzmap), field, next)
    /\ UNCHANGED <<doc, wellFormed, tzmap, pos, call, ret>>

ParseCashReports ==
    SectionStep("cash_reports", "CashReportCurrency", "cash_reports",
                "equity_summaries")

ParseEquitySummaries ==
    SectionStep("equity_summaries", "EquitySummaryByReportDateInBase",
                "equity_summaries", "fifo_performance_summaries")

ParseFifoPerformanceSummaries ==
    SectionStep("fifo_performance_summaries", "FIFOPerformanceSummaryUnderlying",
                "fifo_performance_summaries", "net_stock_positions")

ParseNetStockPositions ==
    SectionStep("net_stock_positions", "NetStockPosition", "net_stock_positions",
                "open_positions")

ParseOpenPositions ==
    SectionStep("open_positions", "OpenPosition", "open_positions", "trades")

\* the Trade section, then Ok(Statement { .. }) is pushed to the Vec
\* r: what parse_section_with_timezone::<Trade> produced
TradesParsed(r) ==
    /\ log' = log \o r.seen
    /\ IF ~IsOk(r.res) THEN Fails(r.res)
       ELSE /\ out' = Append(out, ("trades" :> r.res.v) @@ cur)
            /\ cur' = NoSections
            /\ pc' = "iter"
            /\ UNCHANGED result

\* a pass that enters a key for UTC into the table it was given
ParseTrades_inserting ==
    /\ pc = "trades"
    /\ TradesParsed(parse_section(doc, pos, "Trade", tzmap))
    /\ tzmap' = [a \in DOMAIN tzmap \cup {"UTC"} |->
                    IF a \in DOMAIN tzmap THEN tzmap[a] ELSE "UTC"]
    /\ UNCHANGED <<doc, wellFormed, pos, call, ret>>

ParseTrades ==
    /\ pc = "trades"
    /\ TradesParsed(parse_section(doc, pos, "Trade", tzmap))
    /\ UNCHANGED <<doc, wellFormed, tzmap, pos, call, ret>>

Next ==
    \/ parse_flex_query_response
    \/ NextFlexStatement
    \/ ReturnStatements
    \/ ParseAccountInfos
    \/ ParseCashReports
    \/ ParseEquitySummaries
    \/ ParseFifoPerformanceSummaries
    \/ ParseNetStockPositions
    \/ ParseOpenPositions
    \/ ParseTrades

----------------------------------------------------------------------------
(* The documents the model decodes.  The well-formed records are those of  *)
(* the repository's test fixtures, cut down to the attributes the decoders *)
(* read.                                                                    *)

NoAttrs == [a \in {} |-> ""]
With(attrs, a, v) == (a :> v) @@ attrs
Without(attrs, a) == [x \in DOMAIN attrs \ {a} |-> attrs[x]]

Elem(tag, depth, attrs) == [tag |-> tag, depth |-> depth, attrs |-> attrs]

RecordTags ==
    << "CashReportCurrency", "EquitySummaryByReportDateInBase",
       "FIFOPerformanceSummaryUnderlying", "NetStockPosition", "OpenPosition",
       "Trade" >>

GoodAttrs(tag) ==
    CASE tag = "AccountInformation" ->
            [accountId |-> "U1234567", accountType |-> "Individual"]
      [] tag = "CashReportCurrency" ->
            [accountId |-> "U1234567", currency |-> "USD",
             fromDate |-> "2025-04-25", toDate |-> "2025-04-25",
             startingCash |-> "-1755658.754517244",
             endingCash |-> "-1856140.999082752",
             endingSettledCash |-> "-1755734.794082752",
             netTradesPurchases |-> "0", netTradesSales |-> "0",
             commissions |-> "-56.26956551",
             commissionsMTD |-> "-11167.4772929",
             commissionsYTD |-> "-25339.56064716",
             otherFees |-> "-19.77", otherFeesMTD |-> "-121.27",
             otherFeesYTD |-> "-486.9",
             dividends |-> "0", dividendsMTD |-> "0", dividendsYTD |-> "110.7",
             brokerInterest |-> "0", brokerInterestMTD |-> "-545.49",
             brokerInterestYTD |-> "-1341.59",
             deposits |-> "0", depositsMTD |-> "0", depositsYTD |-> "1650000",
             withdrawals |-> "0", withdrawalsMTD |-> "0",
             withdrawalsYTD |-> "0"]
      [] tag = "EquitySummaryByReportDateInBase" ->
            [accountId |-> "U1234567", currency |-> "USD",
             cash |-> "-1755658.753685009", cashLong |-> "0.000832235",
             cashShort |-> "-1755658.754517244",
             interestAccruals |-> "1292.18", interestAccrualsLong |-> "1591.34",
             interestAccrualsShort |-> "-299.16",
             stock |-> "3441241", stockLong |-> "3441241", stockShort |-> "0",
             reportDate |-> "2025-04-24"]
      [] tag = "FIFOPerformanceSummaryUnderlying" ->
            [accountId |-> "U1234567", assetCategory |-> "STK",
             symbol |-> "TTWO", conid |-> "6478131",
             listingExchange |-> "NASDAQ", reportDate |-> "2025-04-25",
             realizedSTProfit |-> "0", realizedSTLoss |-> "-205.04987357",
             realizedLTProfit |-> "0", realizedLTLoss |-> "0",
             totalRealizedPnl |-> "-205.04987357",
             unrealizedSTProfit |-> "4089.983554", unrealizedSTLoss |-> "0",
             unrealizedLTProfit |-> "0", unrealizedLTLoss |-> "0",
             totalFifoPnl |-> "4089.983554"]
      [] tag = "NetStockPosition" ->
            [accountId |-> "U1234567", currency |-> "USD",
             assetCategory |-> "STK", symbol |-> "GRPN",
             conid |-> "426480582", listingExchange |-> "NASDAQ",
             netShares |-> "3000"]
      [] tag = "OpenPosition" ->
            [accountId |-> "U1234567", currency |-> "USD",
             assetCategory |-> "STK", symbol |-> "GRPN",
             conid |-> "426480582", listingExchange |-> "NASDAQ",
             reportDate |-> "2025-04-25", position |-> "3000",
             markPrice |-> "19.89", positionValue |-> "59670",
             costBasisPrice |-> "20.153441225",
             fifoPnlUnrealized |-> "-790.323674", side |-> "Long"]
      [] tag = "Trade" ->
            [accountId |-> "U1234567", currency |-> "USD", symbol |-> "ARGX",
             conid |-> "276343981", listingExchange |-> "NASDAQ",
             dateTime |-> "2025-04-25;10:19:55 EDT", exchange |-> "BYX",
             quantity |-> "1", tradePrice |-> "606.57",
             ibCommission |-> "-1.000035", openCloseIndicator |-> "O",
             buySell |-> "BUY", ibExecID |-> "0000edae.680b59d1.01.01",
             orderType |-> "LMT",
             brokerageOrderID |-> "002ce642.00014b44.680b0ed6.0001"]
      [] OTHER -> NoAttrs

FlexStatementElem(depth) ==
    Elem("FlexStatement", depth,
         [accountId |-> "U1234567", fromDate |-> "2025-04-25"])

Good(tag) == Elem(tag, 2, GoodAttrs(tag))
\* a second well-formed record of the kind, told from the first by its account
GoodB(tag) == Elem(tag, 2, With(GoodAttrs(tag), "accountId", "U7654321"))
\* a record whose decode returns an error
Faulty(tag) ==
    Elem(tag, 2, With(GoodAttrs(tag),
                      IF tag = "FIFOPerformanceSummaryUnderlying"
                      THEN "reportDate" ELSE "currency",
                      IF tag = "FIFOPerformanceSummaryUnderlying"
                      THEN "n/a" ELSE "bad-" \o tag))
\* a record that lacks a required attribute
Lacking(tag) == Elem(tag, 2, Without(GoodAttrs(tag), "accountId"))

\* texts put in place of one attribute of a well-formed record
FaultTexts == {"", "x", "7", "2025-02-30"}

\* a well-formed element with one attribute removed or replaced
OneFault(tag) ==
    {Elem(tag, 2, Without(GoodAttrs(tag), a)) : a \in DOMAIN GoodAttrs(tag)}
    \cup {Elem(tag, 2, With(GoodAttrs(tag), a, v)) :
            a \in DOMAIN GoodAttrs(tag), v \in FaultTexts}

\* an element without its accountId and with one more attribute replaced
TwoFaults(tag) ==
    {Elem(tag, 2, With(Without(GoodAttrs(tag), "accountId"), a, v)) :
        a \in DOMAIN GoodAttrs(tag) \ {"accountId"}, v \in FaultTexts}

Range(f) == {f[x] : x \in DOMAIN f}

\* one statement, one account information, one record with one or two faults
FaultDocs ==
    {<<FlexStatementElem(1), e>> : e \in OneFault("AccountInformation")}
    \cup UNION {{<<FlexStatementElem(1), Good("AccountInformation"), e>> :
                    e \in OneFault(tag) \cup TwoFaults(tag)} :
                tag \in Range(RecordTags)}

\* A document of the larger families is drawn as its shape, the sequence of
\* <<variant, tag, depth>> of its elements, and built from it.
Variant(variant, tag) ==
    CASE variant = "good" -> Good(tag)
      [] variant = "goodB" -> GoodB(tag)
      [] variant = "faulty" -> Faulty(tag)
      [] variant = "lacking" -> Lacking(tag)

AtDepth(e, depth) == [e EXCEPT !.depth = depth]

ElemOf(c) ==
    IF c[2] = "FlexStatement" THEN FlexStatementElem(c[3])
    ELSE AtDepth(Variant(c[1], c[2]), c[3])

Build(shape) == [k \in DOMAIN shape |-> ElemOf(shape[k])]

FlexStatementShape == <<"good", "FlexStatement", 1>>
AccountInformationShape == <<"good", "AccountInformation", 2>>

RecPalette ==
    {<<variant, tag, 2>> :
        variant \in {"good", "goodB", "faulty", "lacking"},
        tag \in Range(RecordTags)}

\* one flat statement: account information, then n records of any kinds,
\* well-formed or not, in any order
MixDocs(n) ==
    {<<FlexStatementShape, AccountInformationShape>> \o q :
        q \in [1..n -> RecPalette]}

\* statements with any number of account informations, with and without
\* their accountId
AccountDocs(n) ==
    {<<FlexStatementShape>> \o q :
        q \in [1..n -> {FlexStatementShape, AccountInformationShape,
                        <<"lacking", "AccountInformation", 2>>}]}

\* two statements, each with its account information and at most one trade
TwoStatementDocs ==
    {<<FlexStatementShape, AccountInformationShape>> \o q1
        \o <<FlexStatementShape, <<"goodB", "AccountInformation", 2>> >> \o q2 :
        q1 \in {<< >>, << <<"good", "Trade", 2>> >>,
                << <<"faulty", "Trade", 2>> >>, << <<"lacking", "Trade", 2>> >>},
        q2 \in {<< >>, << <<"goodB", "Trade", 2>> >>,
                << <<"faulty", "Trade", 2>> >>, << <<"lacking", "Trade", 2>> >>}}

\* the elements document trees are built from
TreePalette ==
    { <<"good", "FlexStatement">>,
      <<"good", "AccountInformation">>,
      <<"goodB", "AccountInformation">>,
      <<"good", "Trade">> }

\* the depths of the elements of a pre-order listing of n elements: the
\* first at depth 1, each at most one level below the element before it
TreeDepths(n) ==
    {d \in [1..n -> 1..MaxDepth] :
        \A k \in 1..n : d[k] <= (IF k = 1 THEN 1 ELSE d[k - 1] + 1)}

\* every tree of n elements of the palette
TreeDocs(n) ==
    {[k \in 1..n |-> <<kinds[k][1], kinds[k][2], depths[k]>>] :
        kinds \in [1..n -> TreePalette], depths \in TreeDepths(n)}

\* elements of kinds the parser does not name: a container of trades, and a
\* note that carries attributes the decoders read
ForeignTags == {"Trades", "Note"}

ForeignElem(c) ==
    CASE c[2] = "Trades" -> Elem("Trades", c[3], NoAttrs)
      [] c[2] = "Note" ->
            Elem("Note", c[3], [accountId |-> "", dateTime |-> c[1]])
      [] OTHER -> ElemOf(c)

BuildForeign(shape) == [k \in DOMAIN shape |-> ForeignElem(shape[k])]

ForeignPalette ==
    { <<"good", "AccountInformation">>, <<"good", "Trade">>,
      <<"good", "Trades">>, <<"x", "Note">> }

\* one statement element, then every tree of n elements of the palette
\* beside and below it
ForeignDocs(n) ==
    {<<FlexStatementShape>>
        \o [k \in 1..n |-> <<kinds[k][1], kinds[k][2], depths[k + 1]>>] :
        kinds \in [1..n -> ForeignPalette], depths \in TreeDepths(n + 1)}

\* a trade in a container, a statement in a container, and a note
\* with other attributes
ForeignFaultDocs ==
    { << FlexStatementShape, AccountInformationShape, <<"good", "Trades", 2>>,
         <<v, "Trade", 3>> >> : v \in {"good", "faulty", "lacking"} }
    \cup { << <<"good", "Trades", 1>>, <<"good", "FlexStatement", 2>>,
             <<"good", "AccountInformation", 3>>, <<v, "Note", 3>>,
             <<"good", "Trade", 3>> >> : v \in {"x", "2025-04-25;10:19:55 EDT"} }

\* a table whose two keys name different zones
DefaultTimezoneMap_split == [EST |-> "UTC", EDT |-> "America/New_York"]

\* Parser::new()
DefaultTimezoneMap ==
    [EST |-> "America/New_York", EDT |-> "America/New_York"]

\* the tables a caller may hand the parser: the one Parser::new builds, the
\* empty one, one key, and one with a key for UTC
TimezoneMaps ==
    { DefaultTimezoneMap,
      [a \in {} |-> ""],
      [a \in {"EDT"} |-> "America/New_York"],
      [a \in {"EST", "EDT", "UTC"} |->
          IF a = "UTC" THEN "UTC" ELSE "America/New_York"] }

\* the execution time of the fixture's trade under each abbreviation and
\* under none, and a time in each of the hours skipped and repeated
TradeTimes ==
    { "2025-04-25;10:19:55 EDT", "2025-04-25;10:19:55 EST",
      "2025-04-25;10:19:55 PST", "2025-04-25;10:19:55 UTC",
      "2025-04-25;10:19:55", "2025-03-09;02:30:00 EST",
      "2025-11-02;01:30:00 EDT" }

\* records beside the statements: none or one before and after none or one
\* statement
OutsideRecords ==
    {<< >>} \cup {<< <<v, tag, 1>> >> :
                    v \in {"good", "faulty", "lacking"},
                    tag \in {"AccountInformation", "Trade"}}

OutsideDocs ==
    {q1 \o mid \o q2 :
        q1 \in OutsideRecords, q2 \in OutsideRecords,
        mid \in {<< >>, <<FlexStatementShape, AccountInformationShape>>}}

\* one statement, one account information, one trade at one of the times
TradeTimeDocs ==
    {<<FlexStatementElem(1), Good("AccountInformation"),
       Elem("Trade", 2, With(GoodAttrs("Trade"), "dateTime", t))>> :
        t \in TradeTimes}

NoCall == [fn |-> "none", arg |-> "none"]

Init ==
    /\ \/ /\ \/ \E n \in 0..MaxElems :
                   \E shape \in TreeDocs(n) : doc = Build(shape)
             \/ \E n \in 0..MaxRecs :
                   \E shape \in MixDocs(n) : doc = Build(shape)
             \/ \E n \in 0..(MaxRecs + 1) :
                   \E shape \in AccountDocs(n) : doc = Build(shape)
             \/ \E shape \in TwoStatementDocs : doc = Build(shape)
             \/ doc \in FaultDocs
             \/ \E n \in 0..MaxRecs :
                   \E shape \in ForeignDocs(n) : doc = BuildForeign(shape)
             \/ \E shape \in ForeignFaultDocs : doc = BuildForeign(shape)
             \/ \E shape \in OutsideDocs : doc = Build(shape)
          /\ wellFormed = TRUE
          /\ tzmap = DefaultTimezoneMap
       \/ doc = << >> /\ wellFormed = FALSE /\ tzmap = DefaultTimezoneMap
       \/ doc \in TradeTimeDocs /\ wellFormed = TRUE /\ tzmap \in TimezoneMaps
    /\ pc = "start"
    /\ pos = 0
    /\ cur = NoSections
    /\ out = << >>
    /\ result = NoResult
    /\ log = << >>
    /\ call = NoCall
    /\ ret = NoResult

Spec == Init /\ [][Next]_vars

----------------------------------------------------------------------------
(* Accessor runs: one element with one attribute, present with some text   *)
(* or absent, and one call of an accessor or of a closed-set decoder on    *)
(* it.                                                                      *)

ProbeName == "value"

Alphabet == {"0", "1", "+", "-", ".", "e", "x"}

\* the strings over the alphabet of length at most n
RECURSIVE Strings(_)
Strings(n) ==
    IF n = 0 THEN {""}
    ELSE LET shorter == Strings(n - 1)
         IN  shorter \cup {t \o c : t \in shorter, c \in Alphabet}

\* the tags of the closed sets, their case variants, and numerals at the
\* edges of the scalar types
SpecialTexts ==
    { "BASE_SUMMARY", "CAD", "USD", "usd", "Usd", "USD ", " USD", "cad",
      "base_summary", "BASE", "EUR",
      "CRYPTO", "STK", "stk", "Stk", "crypto", "OPT",
      "Long", "Short", "long", "LONG", "SHORT",
      "C", "C;O", "O", "o", "O;C",
      "LMT", "lmt", "MKT",
      "BUY", "SELL", "buy", "Sell",
      "4294967295", "4294967296", "00000000001", "+42", "-42", " 42",
      "12.5", "-1755658.754517244", "1e400", "1E-3", "inf", "-Infinity",
      "NaN", "nan", "infinit", "0x10", "1,5" }

ProbeTexts == Strings(MaxLen) \cup SpecialTexts

Probes ==
    {Elem("Probe", 1, NoAttrs)}
    \cup {Elem("Probe", 1, [value |-> t]) : t \in ProbeTexts}

InitAccessor ==
    /\ doc \in {<<e>> : e \in Probes}
    /\ wellFormed = TRUE
    /\ tzmap = DefaultTimezoneMap
    /\ pc = "start"
    /\ pos = 0
    /\ cur = NoSections
    /\ out = << >>
    /\ result = NoResult
    /\ log = << >>
    /\ call = NoCall
    /\ ret = NoResult

\* the call fn(arg) on the element returns r, or panics with r
Returns(fn, arg, r) ==
    /\ pc = "start"
    /\ call' = [fn |-> fn, arg |-> arg]
    /\ ret' = r
    /\ pc' = "done"
    /\ UNCHANGED <<doc, wellFormed, tzmap, pos, cur, out, result, log>>

GetAttribute ==
    Returns("get_attribute", "String", get_attribute(doc[1], ProbeName))

GetAttributeOpt ==
    Returns("get_attribute_opt", "String",
            get_attribute_opt(doc[1], ProbeName))

ParseAttribute ==
    \E T \in {"u32", "f64"} :
        Returns("parse_attribute", T, parse_attribute(doc[1], ProbeName, T))

ParseAttributeOpt ==
    \E T \in {"u32", "f64"} :
        Returns("parse_attribute_opt", T,
                parse_attribute_opt(doc[1], ProbeName, T))

\* T::try_from(node.node.attribute(name).unwrap())
TryFrom ==
    \E enum \in Enums :
        Returns("try_from", enum, read_enum(doc[1], ProbeName, enum))

\* the AccountInformation element whose accountId is written as the probe's
\* attribute is
AccountInformationOf(node) ==
    Elem("AccountInformation", 2,
         IF ProbeName \in DOMAIN node.attrs
         THEN [accountId |-> node.attrs[ProbeName]] ELSE NoAttrs)

\* AccountInfo::from_node
AccountInfoFromNode ==
    Returns("from_node", "AccountInformation",
            from_node("AccountInformation", AccountInformationOf(doc[1]),
                      tzmap))

NextAccessor ==
    \/ GetAttribute
    \/ GetAttributeOpt
    \/ ParseAttribute
    \/ ParseAttributeOpt
    \/ TryFrom
    \/ AccountInfoFromNode

SpecAccessor == InitAccessor /\ [][NextAccessor]_vars

----------------------------------------------------------------------------
(* Record runs: one abbreviation table, and one call of a normalizer on a  *)
(* text or of a record decoder on an element.                              *)

\* most optional attributes one generated cash report lacks
MaxLacking == 2

Digit(n) ==
    CASE n = 0 -> "0" [] n = 1 -> "1" [] n = 2 -> "2" [] n = 3 -> "3"
      [] n = 4 -> "4" [] n = 5 -> "5" [] n = 6 -> "6" [] n = 7 -> "7"
      [] n = 8 -> "8" [] n = 9 -> "9"

Pad2(n) == Digit(n \div 10) \o Digit(n % 10)
Pad4(n) == Pad2(n \div 100) \o Pad2(n % 100)

\* "YYYY-MM-DD" and "HH:MM:SS"
DateText(y, m, d) == Pad4(y) \o "-" \o Pad2(m) \o "-" \o Pad2(d)
TimeText(h, mi, sec) == Pad2(h) \o ":" \o Pad2(mi) \o ":" \o Pad2(sec)

DateYears == {2024, 2025, 2026}

\* every year-month-day text of the years, with the months 00 and 13 and
\* the days 00, 29 to 32 that a month may not have
DateTexts == {DateText(y, m, d) : y \in DateYears, m \in 0..13, d \in 0..32}

\* texts outside the form YYYY-MM-DD that the "%Y-%m-%d" parser reads
LooseDateTexts ==
    { "2025-4-5", "2025-04-5", "2025-4-25", " 2025-04-25", "+2025-04-25",
      "2025- 4-25", "2025-11- 2", "+02025-03-09" }

\* texts that are no date
JunkDateTexts ==
    { "", "x", "n/a", "2025", "2025-04", "2025-04-", "2025/04/25",
      "25-04-2025", "04/25/2025", "20250425", "2025-04-25 ",
      "2025-04-25T20:00:00", "2025-04-25;10:19:55", "2025-04-2x",
      "2025--04-25", "2025-04-025", "-2025-04-25x" }

\* the days about the two clock changes of 2025, and two ordinary days
ExecDates ==
    { <<2025, 1, 15>>, <<2025, 3, 8>>, <<2025, 3, 9>>, <<2025, 3, 10>>,
      <<2025, 4, 25>>, <<2025, 11, 1>>, <<2025, 11, 2>>, <<2025, 11, 3>> }

\* times of day about the hours skipped and repeated, and ordinary ones
ExecTimes ==
    { <<0, 0, 0>>, <<0, 59, 59>>, <<1, 0, 0>>, <<1, 30, 0>>, <<1, 59, 59>>,
      <<2, 0, 0>>, <<2, 30, 0>>, <<2, 59, 59>>, <<3, 0, 0>>, <<10, 19, 55>>,
      <<19, 59, 59>>, <<23, 59, 59>> }

Abbreviations == {"EST", "EDT", "PST", "UTC"}

\* "YYYY-MM-DD;HH:MM:SS ABBR"
DateTimeTexts ==
    { DateText(d[1], d[2], d[3]) \o ";" \o TimeText(t[1], t[2], t[3])
        \o " " \o z : d \in ExecDates, t \in ExecTimes, z \in Abbreviations }

\* texts outside that form
LooseDateTimeTexts ==
    { "2025-04-25;10:19:55", "2025-04-25;10:19:55 ", "2025-04-25;10:19:55  EDT",
      "2025-04-25;10:19:55 EDT x", "2025-04-25 10:19:55 EDT",
      "2025-04-25;24:00:00 EDT", "2025-04-25;10:60:00 EDT",
      "2025-04-25;10:19:60 EDT", "2025-02-30;10:19:55 EDT",
      "2025-4-25;9:5:7 EST", "2025-04-25;10:19 EDT", "x EDT", "EDT" }

NormalizerTexts ==
    DateTexts \cup LooseDateTexts \cup JunkDateTexts
    \cup DateTimeTexts \cup LooseDateTimeTexts

\* the twelve month-to-date and year-to-date attributes of a cash report
RollupAttrs ==
    { "commissionsMTD", "commissionsYTD", "otherFeesMTD", "otherFeesYTD",
      "dividendsMTD", "dividendsYTD", "brokerInterestMTD",
      "brokerInterestYTD", "depositsMTD", "depositsYTD", "withdrawalsMTD",
      "withdrawalsYTD" }

WithoutAll(attrs, S) == [x \in DOMAIN attrs \ S |-> attrs[x]]

\* cash reports that lack n or fewer, or all, of the rollup attributes, and
\* ones that lack commissions or net-trade attributes
CashReportsLacking(n) ==
    {Elem("CashReportCurrency", 2,
          WithoutAll(GoodAttrs("CashReportCurrency"), Range(f))) :
        f \in [1..n -> RollupAttrs]}
    \cup {Elem("CashReportCurrency", 2,
               WithoutAll(GoodAttrs("CashReportCurrency"), S)) :
            S \in {{}, RollupAttrs, {"commissions"},
                   {"commissions", "commissionsMTD"},
                   {"netTradesPurchases"}, {"netTradesSales"},
                   {"netTradesPurchases", "netTradesSales"}}}

\* cash reports over the periods that start and end on the days about the
\* clock changes
CashReportsOver ==
    {Elem("CashReportCurrency", 2,
          With(With(GoodAttrs("CashReportCurrency"),
                    "fromDate", DateText(a[1], a[2], a[3])),
               "toDate", DateText(b[1], b[2], b[3]))) :
        a \in ExecDates, b \in {<<2025, 3, 9>>, <<2025, 4, 25>>, <<2025, 11, 2>>}}

\* trades executed at each of the date and time texts
TradesAt ==
    {Elem("Trade", 2, With(GoodAttrs("Trade"), "dateTime", t)) :
        t \in DateTimeTexts \cup LooseDateTimeTexts}

\* the attributes with the value v, or without a when v is None
WithOpt(attrs, a, v) == IF v.some THEN With(attrs, a, v.v) ELSE Without(attrs, a)

\* FIFO summaries whose symbol, conid and listingExchange are each absent,
\* blank or written
FifoSummaries ==
    {Elem("FIFOPerformanceSummaryUnderlying", 2,
          WithOpt(WithOpt(WithOpt(GoodAttrs("FIFOPerformanceSummaryUnderlying"),
                                  "symbol", sym),
                          "conid", con),
                  "listingExchange", exch)) :
        sym \in {None, Some(""), Some("TTWO")},
        con \in {None, Some(""), Some("6478131"), Some("007"), Some("x")},
        exch \in {None, Some(""), Some("NASDAQ")}}

InitRecord ==
    /\ \/ \E t \in NormalizerTexts : doc = <<Elem("Probe", 1, [value |-> t])>>
       \/ \E e \in CashReportsLacking(MaxLacking) : doc = <<e>>
       \/ \E e \in CashReportsOver \cup TradesAt \cup FifoSummaries : doc = <<e>>
    /\ wellFormed = TRUE
    /\ tzmap \in TimezoneMaps
    /\ pc = "start"
    /\ pos = 0
    /\ cur = NoSections
    /\ out = << >>
    /\ result = NoResult
    /\ log = << >>
    /\ call = NoCall
    /\ ret = NoResult

TradingEod ==
    /\ ProbeName \in DOMAIN doc[1].attrs
    /\ Returns("trading_eod_after_hours_timestamp_ms", doc[1].attrs[ProbeName],
               trading_eod_after_hours_timestamp_ms(doc[1].attrs[ProbeName]))

TryParseTradeExecutionTimeMs ==
    /\ ProbeName \in DOMAIN doc[1].attrs
    /\ Returns("try_parse_trade_execution_time_ms", doc[1].attrs[ProbeName],
               try_parse_trade_execution_time_ms(tzmap,
                                                 doc[1].attrs[ProbeName]))

FromNode ==
    /\ doc[1].tag \in Range(RecordTags)
    /\ Returns("from_node", doc[1].tag, from_node(doc[1].tag, doc[1], tzmap))

NextRecord ==
    \/ TradingEod
    \/ TryParseTradeExecutionTimeMs
    \/ FromNode

SpecRecord == InitRecord /\ [][NextRecord]_vars

----------------------------------------------------------------------------
(* What the document holds, told from the document alone.                  *)

FlexStatements == {j \in 1..Len(doc) : doc[j].tag = "FlexStatement"}

\* the k-th smallest member of a set of indices
Kth(S, k) == CHOOSE j \in S : Cardinality({x \in S : x < j}) = k - 1

\* element j lies inside element i
Inside(i, j) == i < j /\ \A k \in (i + 1)..j : doc[k].depth > doc[i].depth

\* the elements with the tag inside element i
Descendants(i, tag) ==
    {j \in 1..Len(doc) : doc[j].tag = tag /\ Inside(i, j)}

Sections ==
    { <<"cash_reports", "CashReportCurrency">>,
      <<"equity_summaries", "EquitySummaryByReportDateInBase">>,
      <<"fifo_performance_summaries", "FIFOPerformanceSummaryUnderlying">>,
      <<"net_stock_positions", "NetStockPosition">>,
      <<"open_positions", "OpenPosition">>,
      <<"trades", "Trade">> }

StatementFields == {"account_info"} \cup {s[1] : s \in Sections}

Decoded(j) == from_node(doc[j].tag, doc[j], tzmap)

\* the section s of the statement holds the records of the elements with
\* its tag inside element i, one each, in document order
SectionFrom(stmt, i, s) ==
    /\ Len(stmt[s[1]]) = Cardinality(Descendants(i, s[2]))
    /\ \A n \in 1..Len(stmt[s[1]]) :
          Ok(stmt[s[1]][n]) = Decoded(Kth(Descendants(i, s[2]), n))

\* the statement's account information is that of the one
\* AccountInformation element inside element i
AccountFrom(stmt, i) ==
    /\ Cardinality(Descendants(i, "AccountInformation")) = 1
    /\ stmt.account_info.account_id
         = doc[Kth(Descendants(i, "AccountInformation"), 1)].attrs["accountId"]

\* every statement of the document decodes: one account information, and
\* every record inside it decodes
AllDecode ==
    /\ wellFormed
    /\ \A i \in FlexStatements :
          /\ Cardinality(Descendants(i, "AccountInformation")) = 1
          /\ \A j \in (i + 1)..Len(doc) :
                Inside(i, j)
                /\ doc[j].tag \in {"AccountInformation"} \cup Range(RecordTags)
                => IsOk(Decoded(j))

\* a required attribute of the kind: one its decoder reads with an unwrap
RequiredAttrs(tag) ==
    {f[2] : f \in {g \in Range(FieldsOf(tag)) :
                      g[3] \notin {"optstr", "optf64", "optu32"}}}

LacksRequired(e) == RequiredAttrs(e.tag) \ DOMAIN e.attrs # {}

\* sub occurs in s
Contains(s, sub) ==
    \E i \in 1..(Len(s) - Len(sub) + 1) : SubSeq(s, i, i + Len(sub) - 1) = sub

----------------------------------------------------------------------------
(* The claims.                                                              *)

\* C1: for every FlexStatement element, if the number of AccountInformation
\* elements inside it is 0 or at least 2, parse_flex_query_response returns
\* an error value and no Statement at all; if it is exactly 1, the
\* Statement's account_info.account_id is that element's accountId text.
C1_ExactlyOneAccountInformation ==
    pc = "done" /\ wellFormed =>
        /\ (\E i \in FlexStatements :
               Cardinality(Descendants(i, "AccountInformation")) # 1)
           => IsErr(result) /\ out = << >>
        /\ IsOk(result) =>
              \A k \in 1..Len(result.v) :
                  AccountFrom(result.v[k], Kth(FlexStatements, k))

\* C2: decoding is all-or-nothing: the result is either a sequence holding a
\* fully decoded Statement for every FlexStatement element, or a single
\* error; whenever any record of any statement fails to decode, no Statement,
\* complete or partial, is returned.
C2_AllOrNothing ==
    pc = "done" =>
        /\ \/ /\ IsOk(result)
              /\ Len(result.v) = Cardinality(FlexStatements)
              /\ \A k \in 1..Len(result.v) :
                    DOMAIN result.v[k] = StatementFields
           \/ IsErr(result)
        /\ (\E j \in Range(log) : ~IsOk(Decoded(j)))
           => ~IsOk(result) /\ out = << >>

\* C3: when every statement of a document decodes,
\* parse_flex_query_response returns exactly one Statement per FlexStatement
\* element, and the i-th Statement is decoded from the i-th FlexStatement
\* element in document order.
C3_OneStatementPerElementInOrder ==
    pc = "done" /\ AllDecode =>
        /\ IsOk(result)
        /\ Len(result.v) = Cardinality(FlexStatements)
        /\ \A k \in 1..Len(result.v) :
              /\ AccountFrom(result.v[k], Kth(FlexStatements, k))
              /\ \A s \in Sections :
                    SectionFrom(result.v[k], Kth(FlexStatements, k), s)

\* two statements come back, and they differ
C3_Witness ==
    /\ pc = "done" /\ AllDecode /\ IsOk(result)
    /\ Len(result.v) >= 2
    /\ result.v[1].account_info # result.v[2].account_info

\* C4: in every decoded Statement, each of the six record sequences has
\* exactly as many entries as the statement has descendant elements with
\* that kind's tag, and the k-th entry is decoded from the k-th such element
\* in document order.
C4_SectionsFollowDocumentOrder ==
    \A k \in 1..Len(out) :
        \A s \in Sections : SectionFrom(out[k], Kth(FlexStatements, k), s)

\* a decoded statement holds two different records of a kind, one of them
\* from an element that is no child of the FlexStatement element
C4_Witness ==
    /\ pc = "done" /\ IsOk(result) /\ result.v = out
    /\ \E k \in 1..Len(out) :
          \E s \in Sections :
              \/ /\ Len(out[k][s[1]]) >= 2
                 /\ out[k][s[1]][1] # out[k][s[1]][2]
              \/ \E j \in Descendants(Kth(FlexStatements, k), s[2]) :
                    doc[j].depth > doc[Kth(FlexStatements, k)].depth + 1

\* C5: for every record decoder and every required attribute of its kind, an
\* element that lacks the attribute makes the decode return an error value,
\* propagated to the caller of parse_flex_query_response, never an abort.
C5_MissingAttributeIsAnError ==
    \A j \in Range(log) :
        LacksRequired(doc[j])
        => IsErr(Decoded(j)) /\ (pc = "done" => IsErr(result))

----------------------------------------------------------------------------
(* The claims about one accessor call.                                      *)

Present == ProbeName \in DOMAIN doc[1].attrs
ProbeText == doc[1].attrs[ProbeName]
Blank == Present /\ ProbeText = ""

\* C6: get_attribute_opt and parse_attribute_opt return the same result when
\* the attribute is present with an empty value as when it is absent: "no
\* value" (None / Ok(None)), never zero, an empty string or an error; a
\* present non-empty value is returned as Some.
C6_BlankIsAbsent ==
    /\ call.fn = "get_attribute_opt" =>
          IF ~Present \/ Blank THEN ret = None ELSE ret = Some(ProbeText)
    /\ call.fn = "parse_attribute_opt" =>
          IF ~Present \/ Blank THEN ret = Ok(None)
          ELSE /\ ret # Ok(None)
               /\ IsOk(ret) => ret.v.some
               /\ IsOk(parse(call.arg, ProbeText))
                  => ret = Ok(Some(parse(call.arg, ProbeText).v))

\* an optional read of a blank attribute has returned
C6_Witness ==
    /\ pc = "done" /\ Blank
    /\ call.fn \in {"get_attribute_opt", "parse_attribute_opt"}

\* C7: a scalar attribute that is present, non-empty and not parsable as the
\* target type makes the read fail with an error value through both
\* parse_attribute and parse_attribute_opt: the optional read never turns it
\* into "no value", neither read substitutes a default; a present blank value
\* fails the required read.
C7_UnparsableIsAnError ==
    call.fn \in {"parse_attribute", "parse_attribute_opt"} /\ Present =>
        /\ ProbeText # "" /\ ~IsOk(parse(call.arg, ProbeText)) => IsErr(ret)
        /\ Contains(ProbeText, "x") => IsErr(ret)
        /\ call.fn = "parse_attribute" /\ Blank => IsErr(ret)

\* the optional read of a text that is no number has returned
C7_Witness ==
    /\ pc = "done" /\ call.fn = "parse_attribute_opt" /\ Present
    /\ ProbeText = "1x"
    /\ IsErr(ret)

\* C8: every record-level decode failure returned by a record decoder
\* identifies the record kind, the name of the offending attribute, and the
\* raw attribute value.
C8_ErrorsIdentifyTheAttribute ==
    pc = "done" /\ log # << >> /\ IsErr(Decoded(log[Len(log)])) =>
        LET e == doc[log[Len(log)]]
        IN  /\ result = Decoded(log[Len(log)])
            /\ Contains(result.msg, e.tag)
            /\ \E a \in DOMAIN e.attrs :
                  /\ Contains(result.msg, a)
                  /\ Contains(result.msg, e.attrs[a])

\* C9: the currency decoder maps exactly "BASE_SUMMARY" to BASE, "CAD" to
\* CAD and "USD" to USD, and returns an error for every other string, the
\* empty string and case variants such as "usd" included; it never returns a
\* default variant.
C9_CurrencyTable ==
    call = [fn |-> "try_from", arg |-> "Currency"] /\ Present =>
        CASE ProbeText = "BASE_SUMMARY" -> ret = Ok("BASE")
          [] ProbeText = "CAD" -> ret = Ok("CAD")
          [] ProbeText = "USD" -> ret = Ok("USD")
          [] OTHER -> IsErr(ret)

\* the currency decoder has returned for a case variant of a tag
C9_Witness ==
    /\ pc = "done" /\ call = [fn |-> "try_from", arg |-> "Currency"]
    /\ Present /\ ProbeText = "usd"
    /\ IsErr(ret)

\* an element of a position kind whose assetCategory or side is present and
\* outside the closed set
UnknownPositionTag(e) ==
    \/ /\ e.tag \in {"OpenPosition", "NetStockPosition"}
       /\ "assetCategory" \in DOMAIN e.attrs
       /\ e.attrs["assetCategory"] \notin {"CRYPTO", "STK"}
    \/ /\ e.tag = "OpenPosition"
       /\ "side" \in DOMAIN e.attrs
       /\ e.attrs["side"] \notin {"Long", "Short"}

\* C10: asset category decodes exactly "CRYPTO" to Crypto and "STK" to
\* Stock, position side exactly "Long" to Long and "Short" to Short; an
\* OpenPosition element whose assetCategory or side is any other string, and
\* a NetStockPosition element whose assetCategory is any other string, fails
\* to decode with an error and therefore fails the whole document.
C10_UnknownPositionTagsFail ==
    /\ AssetCategory_try_from("CRYPTO") = Ok("Crypto")
    /\ AssetCategory_try_from("STK") = Ok("Stock")
    /\ PositionSide_try_from("Long") = Ok("Long")
    /\ PositionSide_try_from("Short") = Ok("Short")
    /\ \A t \in SpecialTexts \cup FaultTexts :
          /\ t \notin {"CRYPTO", "STK"} => IsErr(AssetCategory_try_from(t))
          /\ t \notin {"Long", "Short"} => IsErr(PositionSide_try_from(t))
    /\ \A j \in Range(log) :
          UnknownPositionTag(doc[j])
          => IsErr(Decoded(j)) /\ (pc = "done" => IsErr(result))

\* a Trade element one of whose three closed-set attributes is present and
\* outside its table
UnknownTradeTag(e) ==
    /\ e.tag = "Trade"
    /\ \/ /\ "buySell" \in DOMAIN e.attrs
          /\ e.attrs["buySell"] \notin {"BUY", "SELL"}
       \/ /\ "orderType" \in DOMAIN e.attrs
          /\ e.attrs["orderType"] # "LMT"
       \/ /\ "openCloseIndicator" \in DOMAIN e.attrs
          /\ e.attrs["openCloseIndicator"] \notin {"C", "C;O", "O"}

\* the variants the three tables give a decoded trade
TradeTagsDecoded(e, t) ==
    /\ t.side = (IF e.attrs["buySell"] = "BUY" THEN "Buy" ELSE "Sell")
    /\ t.order_type = "Limit"
    /\ t.open_close_indicator =
          (CASE e.attrs["openCloseIndicator"] = "C" -> "Close"
             [] e.attrs["openCloseIndicator"] = "C;O" -> "CloseOpen"
             [] e.attrs["openCloseIndicator"] = "O" -> "Open")

\* r: what from_node returned for the Trade element e
TradeOutcome(e, r) ==
    IF IsOk(r) THEN ~UnknownTradeTag(e) /\ TradeTagsDecoded(e, r.v) ELSE TRUE

\* the three tables, over the special and the fault texts
TradeTablesExact ==
    /\ TradeSide_try_from("BUY") = Ok("Buy")
    /\ TradeSide_try_from("SELL") = Ok("Sell")
    /\ OrderType_try_from("LMT") = Ok("Limit")
    /\ OpenCloseIndicator_try_from("C") = Ok("Close")
    /\ OpenCloseIndicator_try_from("C;O") = Ok("CloseOpen")
    /\ OpenCloseIndicator_try_from("O") = Ok("Open")
    /\ \A t \in SpecialTexts \cup FaultTexts :
          /\ t \notin {"BUY", "SELL"} => ~IsOk(TradeSide_try_from(t))
          /\ t # "LMT" => ~IsOk(OrderType_try_from(t))
          /\ t \notin {"C", "C;O", "O"} => ~IsOk(OpenCloseIndicator_try_from(t))

\* C11: on a Trade element buySell decodes exactly "BUY" to Buy and "SELL"
\* to Sell, orderType exactly "LMT" to Limit, openCloseIndicator exactly "C"
\* to Close, "C;O" to CloseOpen and "O" to Open; any other string in any of
\* the three makes the trade, and so the document, fail to decode.
C11_TradeTables ==
    /\ pc = "start" => TradeTablesExact
    /\ \A j \in Range(log) :
          doc[j].tag = "Trade" => TradeOutcome(doc[j], Decoded(j))
    /\ pc = "done" /\ IsOk(result) =>
          \A j \in 1..Len(doc) :
             UnknownTradeTag(doc[j]) => \A i \in FlexStatements : ~Inside(i, j)

\* a decode pass has ended on a trade whose side is outside the table
C11_Witness ==
    /\ pc = "done"
    /\ \E j \in Range(log) :
          /\ doc[j].tag = "Trade"
          /\ "buySell" \in DOMAIN doc[j].attrs
          /\ doc[j].attrs["buySell"] = "x"
          /\ IsErr(Decoded(j))
    /\ IsErr(result)

\* the tag each variant of a closed set is written as in a statement
CanonicalTag(enum, variant) ==
    CASE enum = "Currency" ->
            (CASE variant = "BASE" -> "BASE_SUMMARY"
               [] variant = "CAD" -> "CAD"
               [] variant = "USD" -> "USD")
      [] enum = "AssetCategory" ->
            (CASE variant = "Crypto" -> "CRYPTO" [] variant = "Stock" -> "STK")
      [] enum = "PositionSide" ->
            (CASE variant = "Long" -> "Long" [] variant = "Short" -> "Short")
      [] enum = "OpenCloseIndicator" ->
            (CASE variant = "Close" -> "C"
               [] variant = "CloseOpen" -> "C;O"
               [] variant = "Open" -> "O")
      [] enum = "OrderType" -> (CASE variant = "Limit" -> "LMT")
      [] enum = "TradeSide" ->
            (CASE variant = "Buy" -> "BUY" [] variant = "Sell" -> "SELL")

RecognizedTags(enum) ==
    CASE enum = "Currency" -> {"BASE_SUMMARY", "CAD", "USD"}
      [] enum = "AssetCategory" -> {"CRYPTO", "STK"}
      [] enum = "PositionSide" -> {"Long", "Short"}
      [] enum = "OpenCloseIndicator" -> {"C", "C;O", "O"}
      [] enum = "OrderType" -> {"LMT"}
      [] enum = "TradeSide" -> {"BUY", "SELL"}

\* C12: for each of the six closed sets, a recognized tag decodes to a
\* variant whose canonical tag is the tag decoded, so that distinct
\* recognized tags decode to distinct variants; every other string fails
\* to decode.
C12_DecodeRoundTrips ==
    call.fn = "try_from" /\ Present =>
       /\ ProbeText \in RecognizedTags(call.arg) => IsOk(ret)
       /\ IsOk(ret) => CanonicalTag(call.arg, ret.v) = ProbeText
       /\ ProbeText \notin RecognizedTags(call.arg) => IsErr(ret)
       /\ \A t \in RecognizedTags(call.arg) \ {ProbeText} :
             IsOk(ret) => try_from(call.arg, t) # ret

\* the asset category decoder has returned Stock for its tag
C12_Witness ==
    /\ pc = "done" /\ call = [fn |-> "try_from", arg |-> "AssetCategory"]
    /\ Present /\ ProbeText = "STK"
    /\ ret = Ok("Stock")

----------------------------------------------------------------------------
(* The calendar and the New York clock, told from tables: the days of     *)
(* March on which the clocks go forward and of November on which they go   *)
(* back, in the years the texts lie in and the year before.                *)

\* is s ten characters, YYYY-MM-DD
IsDateForm(s) ==
    /\ Len(s) = 10
    /\ \A i \in {1, 2, 3, 4, 6, 7, 9, 10} : IsDigit(Char(s, i))
    /\ Char(s, 5) = "-" /\ Char(s, 8) = "-"

\* <<year, month, day>> written by a text of that form
DateOf(s) == <<NumberOf(s, 1, 5), NumberOf(s, 6, 8), NumberOf(s, 9, 11)>>

MonthLength(y, m) ==
    IF m = 2 THEN (IF y % 4 = 0 THEN 29 ELSE 28)
    ELSE <<31, 0, 31, 30, 31, 30, 31, 31, 30, 31, 30, 31>>[m]

IsCalendarDate(d) ==
    d[2] \in 1..12 /\ d[3] >= 1 /\ d[3] <= MonthLength(d[1], d[2])

\* a text of the form YYYY-MM-DD that names a day of the calendar
IsValidDateText(s) == IsDateForm(s) /\ IsCalendarDate(DateOf(s))

\* days from 1970-01-01 to the date (years 1970..2099)
DayNumber(d) ==
    365 * (d[1] - 1970) + (d[1] - 1969) \div 4
    + <<0, 31, 59, 90, 120, 151, 181, 212, 243, 273, 304, 334>>[d[2]]
    + (IF d[1] % 4 = 0 /\ d[2] > 2 THEN 1 ELSE 0)
    + d[3] - 1

ClocksForward == (2023 :> 12) @@ (2024 :> 10) @@ (2025 :> 9) @@ (2026 :> 8)
ClocksBack == (2023 :> 5) @@ (2024 :> 3) @@ (2025 :> 2) @@ (2026 :> 1)

\* is daylight time in force in New York at the UTC second u of year y:
\* from 07:00 UTC of the day in March to 06:00 UTC of the day in November
DaylightAt(y, u) ==
    /\ u >= DayNumber(<<y, 3, ClocksForward[y]>>) * 86400 + 7 * 3600
    /\ u < DayNumber(<<y, 11, ClocksBack[y]>>) * 86400 + 6 * 3600

\* the UTC seconds at which the New York clock shows local second n of a
\* day of year y: none in the hour skipped, two in the hour repeated
NewYorkInstants(y, n) ==
    {u \in {n + 4 * 3600, n + 5 * 3600} :
        u - n = (IF DaylightAt(y, u) THEN 4 * 3600 ELSE 5 * 3600)}

\* the instant of 20:00:00 in New York on the date
TradingClose(d) ==
    [s |-> CHOOSE u \in NewYorkInstants(d[1], DayNumber(d) * 86400 + 20 * 3600) :
              TRUE,
     ms |-> 0]

\* the date before the date
DayBefore(d) ==
    IF d[3] > 1 THEN <<d[1], d[2], d[3] - 1>>
    ELSE IF d[2] > 1 THEN <<d[1], d[2] - 1, MonthLength(d[1], d[2] - 1)>>
    ELSE <<d[1] - 1, 12, 31>>

\* the dates the texts outside the form are read as
LooseDates ==
    ("2025-4-5" :> <<2025, 4, 5>>) @@ ("2025-04-5" :> <<2025, 4, 5>>)
    @@ ("2025-4-25" :> <<2025, 4, 25>>) @@ (" 2025-04-25" :> <<2025, 4, 25>>)
    @@ ("+2025-04-25" :> <<2025, 4, 25>>) @@ ("2025- 4-25" :> <<2025, 4, 25>>)
    @@ ("2025-11- 2" :> <<2025, 11, 2>>) @@ ("+02025-03-09" :> <<2025, 3, 9>>)

TradingEodCalled == call.fn = "trading_eod_after_hours_timestamp_ms"

\* C13 as stated: for every valid calendar date written YYYY-MM-DD,
\* trading_eod_after_hours_timestamp_ms returns the epoch milliseconds of
\* 20:00:00 in America/New_York on that date, under the UTC offset in force
\* there on that date; for every string that is not a valid date in that
\* form it returns an error value.
C13_TradingCloseOrError ==
    TradingEodCalled =>
        IF IsValidDateText(call.arg)
        THEN ret = Ok(TradingClose(DateOf(call.arg)))
        ELSE IsErr(ret)

\* C13, amended: for every valid calendar date written YYYY-MM-DD the
\* function returns the epoch milliseconds of 20:00:00 in New York on that
\* date; it also reads a month or day of one digit, spaces before a number
\* and a signed year, and returns the instant of the date so written; for
\* a text of the form that names no day of the calendar, and for every
\* other text, it returns an error value.
C13_TradingCloseOfEveryDateRead ==
    TradingEodCalled =>
        CASE IsValidDateText(call.arg) ->
                ret = Ok(TradingClose(DateOf(call.arg)))
          [] call.arg \in DOMAIN LooseDates ->
                ret = Ok(TradingClose(LooseDates[call.arg]))
          [] OTHER -> IsErr(ret)

\* the function has returned for the day the clocks go forward, under
\* daylight time
C13_Witness ==
    /\ pc = "done" /\ TradingEodCalled
    /\ call.arg = "2025-03-09"
    /\ ret = Ok([s |-> 1741564800, ms |-> 0])

CashReportDecoded ==
    call = [fn |-> "from_node", arg |-> "CashReportCurrency"] /\ IsOk(ret)

\* C14: for every cash report with a valid fromDate, the days next to a
\* clock change included, start_timestamp_ms is the trading-close instant
\* of the calendar day before fromDate plus one millisecond, and
\* end_timestamp_ms is the trading-close instant of toDate.
C14_CashReportPeriod ==
    CashReportDecoded /\ IsValidDateText(doc[1].attrs["fromDate"]) =>
       /\ ret.v.start_timestamp_ms =
             [s |-> TradingClose(DayBefore(DateOf(doc[1].attrs["fromDate"]))).s,
              ms |-> 1]
       /\ IsValidDateText(doc[1].attrs["toDate"]) =>
             ret.v.end_timestamp_ms = TradingClose(DateOf(doc[1].attrs["toDate"]))

\* is s of the form "YYYY-MM-DD;HH:MM:SS ABBR", the abbreviation without
\* spaces
IsDateTimeForm(s) ==
    /\ Len(s) > 20
    /\ IsDateForm(SubSeq(s, 1, 10))
    /\ Char(s, 11) = ";"
    /\ \A i \in {12, 13, 15, 16, 18, 19} : IsDigit(Char(s, i))
    /\ Char(s, 14) = ":" /\ Char(s, 17) = ":"
    /\ Char(s, 20) = " "
    /\ IndexOf(s, " ", 21) > Len(s)

\* <<hour, minute, second>> and the abbreviation written by such a text
TimeOf(s) == <<NumberOf(s, 12, 14), NumberOf(s, 15, 17), NumberOf(s, 18, 20)>>
AbbreviationOf(s) == From(s, 21)

\* a text of that form that names a day of the calendar and a time of day
IsValidDateTimeText(s) ==
    /\ IsDateTimeForm(s)
    /\ IsCalendarDate(DateOf(s))
    /\ TimeOf(s)[1] <= 23 /\ TimeOf(s)[2] <= 59 /\ TimeOf(s)[3] <= 59

\* the date and time written, as seconds from 1970-01-01T00:00:00 on a
\* clock that is never changed
LocalSecond(s) ==
    DayNumber(DateOf(s)) * 86400
    + TimeOf(s)[1] * 3600 + TimeOf(s)[2] * 60 + TimeOf(s)[3]

\* the UTC seconds at which the clocks of the zone show what s writes
LocalInstants(zone, s) ==
    IF zone = "America/New_York"
    THEN NewYorkInstants(DateOf(s)[1], LocalSecond(s))
    ELSE {LocalSecond(s)}

TradeCalled == call = [fn |-> "from_node", arg |-> "Trade"]
TradeDateTime == doc[1].attrs["dateTime"]

\* C15: for every Trade element whose dateTime is "YYYY-MM-DD;HH:MM:SS
\* ABBR" with ABBR a key of the parser's table, execution_timestamp_ms is
\* the epoch milliseconds of that date and time read as local wall-clock
\* time in the zone the table maps ABBR to.
C15_ExecutionInstant ==
    /\ TradeCalled
    /\ IsValidDateTimeText(TradeDateTime)
    /\ AbbreviationOf(TradeDateTime) \in DOMAIN tzmap
    /\ LocalInstants(tzmap[AbbreviationOf(TradeDateTime)], TradeDateTime) # {}
    => /\ IsOk(ret)
       /\ ret.v.execution_timestamp_ms.s
             \in LocalInstants(tzmap[AbbreviationOf(TradeDateTime)],
                               TradeDateTime)
       /\ ret.v.execution_timestamp_ms.ms = 0

\* a Trade element whose dateTime is of the form and whose abbreviation is
\* no key of the table
UnknownAbbreviation(e) ==
    /\ e.tag = "Trade"
    /\ "dateTime" \in DOMAIN e.attrs
    /\ IsValidDateTimeText(e.attrs["dateTime"])
    /\ AbbreviationOf(e.attrs["dateTime"]) \notin DOMAIN tzmap

\* C16: when the abbreviation of a trade's dateTime is no key of the
\* parser's table, the empty table included, the conversion fails with an
\* error value that parse_flex_query_response returns to its caller; it
\* neither aborts the program nor falls back to another timezone.
C16_UnknownAbbreviationIsAnError ==
    \A j \in Range(log) :
        UnknownAbbreviation(doc[j]) /\ ~LacksRequired(doc[j])
        => IsErr(Decoded(j)) /\ (pc = "done" => IsErr(result))

\* the text with EST in place of EDT and EDT in place of EST
Retagged(s) ==
    SubSeq(s, 1, 20) \o (IF AbbreviationOf(s) = "EST" THEN "EDT" ELSE "EST")

\* C17: the table Parser::new builds has exactly the keys "EST" and "EDT",
\* both mapped to America/New_York; so under it the execution instant of a
\* date and time is the same whether the text is tagged EST or EDT.
C17_DefaultTableIgnoresTheTag ==
    /\ DOMAIN DefaultTimezoneMap = {"EST", "EDT"}
    /\ \A k \in DOMAIN DefaultTimezoneMap :
          DefaultTimezoneMap[k] = "America/New_York"
    /\ /\ call.fn = "try_parse_trade_execution_time_ms"
       /\ tzmap = DefaultTimezoneMap
       /\ IsDateTimeForm(call.arg)
       /\ AbbreviationOf(call.arg) \in {"EST", "EDT"}
       => ret = try_parse_trade_execution_time_ms(tzmap, Retagged(call.arg))

\* the fixture's execution time, tagged EST, has been converted under the
\* default table to the instant of its EDT reading
C17_Witness ==
    /\ pc = "done"
    /\ tzmap = DefaultTimezoneMap
    /\ call = [fn |-> "try_parse_trade_execution_time_ms",
               arg |-> "2025-04-25;10:19:55 EST"]
    /\ ret = Ok([s |-> 1745590795, ms |-> 0])

\* C18: parse_flex_query_response leaves the parser's timezone_map
\* unchanged: after any decode pass, successful or failed, the table has the
\* keys and values it had before; no step of a pass changes it.
C18_TimezoneMapUnchanged == [][tzmap' = tzmap]_vars

\* a pass over a document with a trade has ended Ok under the table whose
\* one key is EDT
C18_Witness ==
    /\ pc = "done"
    /\ IsOk(result)
    /\ \E j \in Range(log) : doc[j].tag = "Trade"
    /\ DOMAIN tzmap = {"EDT"}
    /\ tzmap["EDT"] = "America/New_York"

\* the field of CashReport each month-to-date or year-to-date attribute is
\* decoded into
RollupField ==
    ("commissionsMTD" :> "commissions_mtd")
    @@ ("commissionsYTD" :> "commissions_ytd")
    @@ ("otherFeesMTD" :> "other_fees_mtd")
    @@ ("otherFeesYTD" :> "other_fees_ytd")
    @@ ("dividendsMTD" :> "dividends_mtd")
    @@ ("dividendsYTD" :> "dividends_ytd")
    @@ ("brokerInterestMTD" :> "interest_mtd")
    @@ ("brokerInterestYTD" :> "interest_ytd")
    @@ ("depositsMTD" :> "deposits_mtd")
    @@ ("depositsYTD" :> "deposits_ytd")
    @@ ("withdrawalsMTD" :> "withdrawals_mtd")
    @@ ("withdrawalsYTD" :> "withdrawals_ytd")

CashReportCalled == call = [fn |-> "from_node", arg |-> "CashReportCurrency"]

\* C20: a CashReportCurrency element that lacks any of the twelve
\* month-to-date and year-to-date attributes decodes successfully with the
\* field of each attribute it lacks None, never 0.0, while commissions is
\* required and is decoded as a number.
C20_RollupsAreOptional ==
    CashReportCalled =>
       /\ (DOMAIN GoodAttrs("CashReportCurrency") \ RollupAttrs)
             \subseteq DOMAIN doc[1].attrs
          => /\ IsOk(ret)
             /\ \A a \in RollupAttrs :
                   ret.v[RollupField[a]] =
                      (IF a \in DOMAIN doc[1].attrs
                       THEN Some(parse_f64(doc[1].attrs[a]).v)
                       ELSE None)
             /\ ret.v.commissions = parse_f64(doc[1].attrs["commissions"]).v
             /\ ret.v.commissions.cls = "num"
       /\ "commissions" \notin DOMAIN doc[1].attrs => ~IsOk(ret)

\* a cash report with none of the twelve attributes has been decoded
C20_Witness ==
    /\ pc = "done" /\ CashReportCalled
    /\ DOMAIN doc[1].attrs \cap RollupAttrs = {}
    /\ IsOk(ret)
    /\ ret.v.commissions_mtd = None /\ ret.v.withdrawals_ytd = None
    /\ ret.v.commissions =
          [cls |-> "num", neg |-> TRUE, digits |-> "5626956551", exp |-> -8]

\* the field of CashReport each net-trade attribute is decoded into
NetTradeField ==
    ("netTradesPurchases" :> "net_trade_purchases")
    @@ ("netTradesSales" :> "net_trade_sales")

\* C21: a CashReportCurrency element that lacks netTradesPurchases or
\* netTradesSales decodes successfully, the field of the attribute it lacks
\* holding no value, not zero and not a failure.
C21_NetTradesAreOptional ==
    /\ CashReportCalled
    /\ (DOMAIN GoodAttrs("CashReportCurrency") \ DOMAIN NetTradeField)
          \subseteq DOMAIN doc[1].attrs
    => /\ IsOk(ret)
       /\ \A a \in DOMAIN NetTradeField \ DOMAIN doc[1].attrs :
             ret.v[NetTradeField[a]] = None

InstrumentAttrs == {"symbol", "conid", "listingExchange"}

\* no value when the element lacks the attribute or has it blank, else the
\* text
TextOrNone(e, a) ==
    IF a \in DOMAIN e.attrs /\ e.attrs[a] # "" THEN Some(e.attrs[a]) ELSE None

\* the integers the conid texts write
ConidValue == ("6478131" :> "6478131") @@ ("007" :> "7")

FifoCalled ==
    call = [fn |-> "from_node", arg |-> "FIFOPerformanceSummaryUnderlying"]

\* C22: a FIFOPerformanceSummaryUnderlying element whose symbol, conid and
\* listingExchange are each blank or absent decodes successfully with
\* ticker, conid and listing_exchange None; an attribute that is present
\* and not blank decodes to Some of its text, conid to Some of the integer
\* it writes.
C22_InstrumentIsOptional ==
    /\ FifoCalled
    /\ (DOMAIN GoodAttrs("FIFOPerformanceSummaryUnderlying") \ InstrumentAttrs)
          \subseteq DOMAIN doc[1].attrs
    /\ TextOrNone(doc[1], "conid") \in {None} \cup {Some(t) : t \in DOMAIN ConidValue}
    => /\ IsOk(ret)
       /\ ret.v.ticker = TextOrNone(doc[1], "symbol")
       /\ ret.v.listing_exchange = TextOrNone(doc[1], "listingExchange")
       /\ ret.v.conid =
             (IF TextOrNone(doc[1], "conid") = None THEN None
              ELSE Some(ConidValue[doc[1].attrs["conid"]]))

\* a summary with a blank symbol, no conid and a blank listingExchange has
\* been decoded
C22_Witness ==
    /\ pc = "done" /\ FifoCalled
    /\ "symbol" \in DOMAIN doc[1].attrs /\ doc[1].attrs["symbol"] = ""
    /\ "conid" \notin DOMAIN doc[1].attrs
    /\ "listingExchange" \in DOMAIN doc[1].attrs
    /\ doc[1].attrs["listingExchange"] = ""
    /\ IsOk(ret)
    /\ ret.v.ticker = None /\ ret.v.conid = None
    /\ ret.v.listing_exchange = None

----------------------------------------------------------------------------
(* The outcome of a decode pass, told as one fold over the statements of a *)
(* document, and the document without the elements of foreign kinds.       *)

KnownTags ==
    {"FlexStatement", "AccountInformation"} \cup Range(RecordTags)

\* the sections after account_info, in the order parse_flex_statement reads
\* them: <<field, tag>>
SectionOrder ==
    << <<"cash_reports", "CashReportCurrency">>,
       <<"equity_summaries", "EquitySummaryByReportDateInBase">>,
       <<"fifo_performance_summaries", "FIFOPerformanceSummaryUnderlying">>,
       <<"net_stock_positions", "NetStockPosition">>,
       <<"open_positions", "OpenPosition">>,
       <<"trades", "Trade">> >>

RECURSIVE SectionsFold(_, _, _, _, _)

\* r: the outcome of the first of the sections
AfterSection(d, i, tz_map, sections, stmt, r) ==
    IF IsOk(r)
    THEN SectionsFold(d, i, tz_map, Tail(sections),
                      (Head(sections)[1] :> r.v) @@ stmt)
    ELSE r

SectionsFold(d, i, tz_map, sections, stmt) ==
    IF sections = << >> THEN Ok(stmt)
    ELSE AfterSection(d, i, tz_map, sections, stmt,
                      parse_section(d, i, Head(sections)[2], tz_map).res)

\* a: the outcome of the AccountInformation section of statement element i
AfterAccountInfos(d, i, tz_map, a) ==
    IF ~IsOk(a) THEN a
    ELSE IF Len(a.v) > 1
    THEN Err("multiple account information sections found")
    ELSE IF Len(a.v) = 0 THEN Err("no account information sections found")
    ELSE SectionsFold(d, i, tz_map, SectionOrder, [account_info |-> a.v[1]])

StatementOutcome(d, i, tz_map) ==
    AfterAccountInfos(d, i, tz_map,
                      parse_section(d, i, "AccountInformation", tz_map).res)

RECURSIVE StatementsFold(_, _, _, _)

\* r: the outcome of statement element i
AfterStatement(d, i, tz_map, stmts, r) ==
    IF IsOk(r) THEN StatementsFold(d, i, tz_map, Append(stmts, r.v)) ELSE r

\* i: the first statement element after p, 0 when there is none
FromStatement(d, i, tz_map, stmts) ==
    IF i = 0 THEN Ok(stmts)
    ELSE AfterStatement(d, i, tz_map, stmts, StatementOutcome(d, i, tz_map))

StatementsFold(d, p, tz_map, stmts) ==
    FromStatement(d, NextStatement(d, p), tz_map, stmts)

PassOutcome(d, tz_map) == StatementsFold(d, 0, tz_map, << >>)

\* the elements of the document of known kinds, in document order
KnownElements == SelectSeq([j \in 1..Len(doc) |-> j],
                           LAMBDA j : doc[j].tag \in KnownTags)

\* the document with the elements idx alone: each keeps its attributes and
\* lies inside the elements of idx it lay inside
Pruned(idx) ==
    [k \in 1..Len(idx) |->
        [doc[idx[k]] EXCEPT
            !.depth = 1 + Cardinality({i \in Range(idx) : Inside(i, idx[k])})]]

\* the document without its elements of foreign kinds
Skeleton == Pruned(KnownElements)

HasForeign == \E j \in 1..Len(doc) : doc[j].tag \notin KnownTags

\* C23: elements whose tag is none of the eight the parser names are
\* ignored: the pass over a document returns what the pass over the same
\* document without those elements returns, the same Statements or the
\* same failure, wherever the elements stand and whatever their attributes.
C23_ForeignElementsAreIgnored ==
    pc = "done" /\ wellFormed /\ HasForeign =>
        result = PassOutcome(Skeleton, tzmap)

\* a pass over a statement whose trade lies in a Trades container has
\* returned the trade
C23_Witness ==
    /\ pc = "done" /\ IsOk(result)
    /\ Len(result.v) = 1 /\ Len(result.v[1].trades) = 1
    /\ \E j \in Range(log) :
          /\ doc[j].tag = "Trade"
          /\ j > 1 /\ doc[j - 1].tag = "Trades"
          /\ doc[j].depth = doc[j - 1].depth + 1

\* statement element k does not decode, and every statement element before
\* it does
FirstFailing(k) ==
    /\ k \in FlexStatements
    /\ ~IsOk(StatementOutcome(doc, k, tzmap))
    /\ \A i \in FlexStatements :
          i < k => IsOk(StatementOutcome(doc, i, tzmap))

\* element j lies in statement element k or in one before it
UpTo(k, j) == \E i \in FlexStatements : i <= k /\ Inside(i, j)

\* C24: when statement k is the first statement in document order that
\* does not decode, the pass returns an error, the error is the one of
\* statement k, and no element of a later statement has been decoded.
C24_FailFastInDocumentOrder ==
    pc = "done" /\ wellFormed =>
        \A k \in FlexStatements :
            FirstFailing(k) =>
                /\ IsErr(result)
                /\ result = StatementOutcome(doc, k, tzmap)
                /\ \A j \in Range(log) : UpTo(k, j)

\* the order alone, whatever way statement k fails: the pass ends as
\* statement k ends, and nothing of a later statement is decoded
FailFastOrder ==
    pc = "done" /\ wellFormed =>
        \A k \in FlexStatements :
            FirstFailing(k) =>
                /\ result = StatementOutcome(doc, k, tzmap)
                /\ \A j \in Range(log) : UpTo(k, j)

\* C25: for every dateTime text "YYYY-MM-DD;HH:MM:SS ABBR" with a valid
\* date and time and ABBR a key of the table, the conversion to the
\* execution instant returns a timestamp or an error value, also for a
\* wall-clock time the zone skips or repeats; it never aborts.
C25_ConversionIsTotal ==
    /\ call.fn = "try_parse_trade_execution_time_ms"
    /\ IsValidDateTimeText(call.arg)
    /\ AbbreviationOf(call.arg) \in DOMAIN tzmap
    => IsOk(ret) \/ IsErr(ret)

\* the elements of the document that are a statement element or lie in one
InStatements == SelectSeq([j \in 1..Len(doc) |-> j],
                          LAMBDA j : \/ doc[j].tag = "FlexStatement"
                                     \/ \E i \in FlexStatements : Inside(i, j))

\* the document without the elements that lie outside every statement
WithoutOutside == Pruned(InStatements)

\* a record element outside every statement element
OutsideRecord(j) ==
    /\ doc[j].tag \in {"AccountInformation"} \cup Range(RecordTags)
    /\ \A i \in FlexStatements : ~Inside(i, j)

\* C26: a well-formed document without a FlexStatement element decodes to
\* the empty sequence of Statements, and a record outside every
\* FlexStatement element is never decoded: the pass returns what it returns
\* for the document without the elements outside the statements.
C26_OutsideRecordsAreNotDecoded ==
    /\ \A j \in Range(log) : ~OutsideRecord(j)
    /\ pc = "done" /\ wellFormed =>
          /\ FlexStatements = {} => result = Ok(<< >>)
          /\ result = PassOutcome(WithoutOutside, tzmap)

\* a pass over a document with a statement and, outside it, a record that
\* does not decode has returned the statement
C26_Witness ==
    /\ pc = "done" /\ IsOk(result) /\ Len(result.v) = 1
    /\ \E j \in 1..Len(doc) : OutsideRecord(j) /\ ~IsOk(Decoded(j))

\* the kinds of a statement in the order they are decoded
KindOrder ==
    << "AccountInformation", "CashReportCurrency",
       "EquitySummaryByReportDateInBase", "FIFOPerformanceSummaryUnderlying",
       "NetStockPosition", "OpenPosition", "Trade" >>

\* the elements of a kind in statement element i that do not decode
BadOf(i, tag) == {j \in Descendants(i, tag) : ~IsOk(Decoded(j))}

First(S) == CHOOSE j \in S : \A x \in S : j <= x

WrongCount(i) == Cardinality(Descendants(i, "AccountInformation")) # 1

\* statement element i holds a record that does not decode or a wrong
\* number of AccountInformation elements
StatementFails(i) ==
    WrongCount(i) \/ \E r \in 1..Len(KindOrder) : BadOf(i, KindOrder[r]) # {}

\* the first kind of the order with a record in statement element i that
\* does not decode
FirstBadKind(i) ==
    KindOrder[First({r \in 1..Len(KindOrder) : BadOf(i, KindOrder[r]) # {}})]

\* the failure of statement element i met first in kind-major order
MetFirst(i) ==
    IF BadOf(i, "AccountInformation") # {}
    THEN Decoded(First(BadOf(i, "AccountInformation")))
    ELSE IF Cardinality(Descendants(i, "AccountInformation")) > 1
    THEN Err("multiple account information sections found")
    ELSE IF Descendants(i, "AccountInformation") = {}
    THEN Err("no account information sections found")
    ELSE Decoded(First(BadOf(i, FirstBadKind(i))))

FirstToFail(k) ==
    k \in FlexStatements /\ StatementFails(k)
    /\ \A i \in FlexStatements : i < k => ~StatementFails(i)

\* C27: the kinds of a statement are decoded in the order
\* AccountInformation, then the count of AccountInformation elements,
\* CashReportCurrency, EquitySummaryByReportDateInBase,
\* FIFOPerformanceSummaryUnderlying, NetStockPosition, OpenPosition, Trade,
\* each in document order: the pass returns an error, and it is the error
\* of the failure met first in this order, a wrong count of
\* AccountInformation elements before any failure of the six other kinds.
C27_KindMajorOrder ==
    pc = "done" /\ wellFormed =>
        \A k \in FlexStatements :
            FirstToFail(k) => IsErr(result) /\ result = MetFirst(k)

\* the order alone, whatever way the record met first fails
KindMajorOrder ==
    pc = "done" /\ wellFormed =>
        \A k \in FlexStatements : FirstToFail(k) => result = MetFirst(k)

\* statement element i and the elements inside it
SubtreeOf(i) == SelectSeq([j \in 1..Len(doc) |-> j],
                          LAMBDA j : j = i \/ Inside(i, j))

\* the document that holds statement element i alone
Alone(i) == Pruned(SubtreeOf(i))

\* no statement element lies inside another
Siblings == \A i \in FlexStatements : \A j \in FlexStatements : ~Inside(i, j)

\* C28: in a document whose FlexStatement elements are siblings, each
\* decoded Statement is the Statement its own FlexStatement element decodes
\* to when it stands alone: its account_info and every record come from the
\* elements inside its own FlexStatement element, and its count of
\* AccountInformation elements is the count inside that element.
C28_StatementsAreIsolated ==
    pc = "done" /\ wellFormed /\ Siblings /\ IsOk(result) =>
        /\ Len(result.v) = Cardinality(FlexStatements)
        /\ \A k \in 1..Len(result.v) :
              /\ Ok(result.v[k])
                    = StatementOutcome(Alone(Kth(FlexStatements, k)), 1, tzmap)
              /\ AccountFrom(result.v[k], Kth(FlexStatements, k))

\* two sibling statements have come back, each with its own account and
\* its own trade
C28_Witness ==
    /\ pc = "done" /\ wellFormed /\ Siblings /\ IsOk(result)
    /\ Len(result.v) = 2
    /\ result.v[1].account_info # result.v[2].account_info
    /\ Len(result.v[1].trades) = 1 /\ Len(result.v[2].trades) = 1
    /\ result.v[1].trades # result.v[2].trades

\* C29: on an attribute that is present with an empty value get_attribute
\* succeeds and returns the empty string, so that an AccountInformation
\* element with accountId="" decodes to an account whose account_id is
\* empty, whereas get_attribute_opt returns "no value".
C29_BlankIsAValueWhenRequired ==
    Blank =>
        /\ call.fn = "get_attribute" => ret = Ok("")
        /\ call.fn = "from_node" => ret = Ok([account_id |-> ""])
        /\ call.fn = "get_attribute_opt" => ret = None

\* AccountInfo::from_node has returned for an element whose accountId is
\* empty
C29_Witness == Blank /\ call.fn = "from_node" /\ IsOk(ret)

\* fromDate and toDate of the cash report are dates, the first on or before
\* the second
PeriodInOrder ==
    /\ IsValidDateText(doc[1].attrs["fromDate"])
    /\ IsValidDateText(doc[1].attrs["toDate"])
    /\ DayNumber(DateOf(doc[1].attrs["fromDate"]))
          <= DayNumber(DateOf(doc[1].attrs["toDate"]))

\* timestamp a is before timestamp b
Before(a, b) == a.s < b.s \/ (a.s = b.s /\ a.ms < b.ms)

\* C30: for every decoded cash report with fromDate on or before toDate,
\* start_timestamp_ms < end_timestamp_ms; when the two dates are equal the
\* end is 86,399,999 ms after the start (86,400 s less 1 ms); the end is a
\* multiple of 1000 and the start is 1 more than a multiple of 1000.
C30_PeriodIsOneMillisecondShort ==
    CashReportDecoded /\ PeriodInOrder =>
        /\ Before(ret.v.start_timestamp_ms, ret.v.end_timestamp_ms)
        /\ ret.v.end_timestamp_ms.ms = 0
        /\ ret.v.start_timestamp_ms.ms = 1
        /\ doc[1].attrs["fromDate"] = doc[1].attrs["toDate"] =>
              (ret.v.end_timestamp_ms.s - ret.v.start_timestamp_ms.s) * 1000
              + ret.v.end_timestamp_ms.ms - ret.v.start_timestamp_ms.ms
                = 86399999

\* a cash report of one day, the day the clocks go forward, has been decoded
C30_Witness ==
    /\ CashReportDecoded /\ PeriodInOrder
    /\ doc[1].attrs["fromDate"] = "2025-03-09"
    /\ doc[1].attrs["toDate"] = "2025-03-09"

=============================================================================
